---- MODULE Spec2Model ----
(***************************************************************************)
(* Holy Shift word cloud: the weight engine (compute_word_weights), the    *)
(* size normalizer (normalize_items, weight_for) and the token cache of    *)
(* the Flask application (get_cached_prepared, store_cache_entry,          *)
(* generate), modelled from src/wordcloud_core.py and src/app.py.          *)
(*                                                                         *)
(* Python floats are modelled as exact rationals [n |-> .., d |-> ..]      *)
(* with d > 0; strings are TLA+ strings; regular expressions and           *)
(* str.lower() are tables over the finite vocabulary of the model.         *)
(***************************************************************************)
EXTENDS Integers, Sequences, FiniteSets, TLC

VARIABLES
    hashSeed,     \* the process's string-hash seed: fixes set iteration order
    CACHE_ENABLED,\* app.CACHE_ENABLED, read from the environment at start
    wIn, wOut,    \* compute_word_weights: arguments and returned pair
    nIn, nOut,    \* normalize_items / weight_for: arguments and result
    tIn, tOut,    \* tokenizer, reference detector, JSON adapter: the same
    fs,           \* input files: path -> modification time (content follows it)
    TOKEN_CACHE,  \* app.TOKEN_CACHE: OrderedDict as a sequence, oldest first
    last,         \* the last generate request served and its response
    runs,         \* history: cache key -> pipeline runs since it was last evicted
    recency,      \* history: cached keys, least recently used first
    thr,          \* concurrent requests: thread -> position and locals
    badEvict,     \* history: a popitem ran while len(TOKEN_CACHE) <= CACHE_CAPACITY
    heap,         \* list objects: address -> elements
    owner,        \* cached key -> addresses of its entry's tokens and references
    held          \* address of the list the latest call returned, 0 for none

pureVars == <<wIn, wOut, nIn, nOut, tIn, tOut>>

appVars == <<fs, TOKEN_CACHE, last, runs, recency>>

concVars == <<thr, badEvict>>

aliasVars == <<heap, owner, held>>

vars == <<hashSeed, CACHE_ENABLED, pureVars, appVars, concVars, aliasVars>>

None == "None"

-----------------------------------------------------------------------------
(* Bounds of the model                                                      *)

MaxTokens == 3      \* longest token sequence handed to compute_word_weights

MaxCalls == 3       \* calls of compute_word_weights in one behaviour

MaxKeys == 3        \* most keys in a mapping handed to normalize_items

MaxTotal == 27      \* largest total handed to weight_for on its own

MaxMtime == 2       \* a file is rewritten until its modification time is this

CACHE_CAPACITY == 2  \* the value WORDCLOUD_CACHE_MAX gives CACHE_CAPACITY

MaxRuns == 2        \* the count of extraction runs per fingerprint stops here

-----------------------------------------------------------------------------
(* Generic helpers                                                          *)

Max(a, b) == IF a >= b THEN a ELSE b

Min(a, b) == IF a <= b THEN a ELSE b

Range(seq) == {seq[i] : i \in 1..Len(seq)}

\* number of occurrences, as collections.Counter counts them
Count(seq, k) == Cardinality({i \in 1..Len(seq) : seq[i] = k})

\* the elements of seq appended to front, those already there left out
RECURSIVE DedupInto(_, _)
DedupInto(front, seq) ==
    IF seq = <<>> THEN front
    ELSE DedupInto(IF Head(seq) \in Range(front) THEN front
                   ELSE Append(front, Head(seq)),
                   Tail(seq))

\* the distinct elements of seq in order of first appearance (dict key order)
Dedup(seq) == DedupInto(<<>>, seq)

\* dict.get(key, default)
Get(map, key, default) == IF key \in DOMAIN map THEN map[key] ELSE default

\* seq without the elements outside S, order kept
RECURSIVE Restrict(_, _)
Restrict(seq, S) ==
    IF seq = <<>> THEN <<>>
    ELSE IF Head(seq) \in S THEN <<Head(seq)>> \o Restrict(Tail(seq), S)
         ELSE Restrict(Tail(seq), S)

-----------------------------------------------------------------------------
(* Floats as rationals                                                      *)

EmptyMap == [k \in {} |-> 0]

Rat(n, d) == [n |-> n, d |-> d]

RatEq(a, b) == a.n * b.d = b.n * a.d

\* Python's round(): to the nearest integer, ties to the even one
RoundHalfEven(n, d) ==
    LET f == n \div d
        r == n % d
    IN IF 2 * r < d THEN f
       ELSE IF 2 * r > d THEN f + 1
       ELSE IF f % 2 = 0 THEN f ELSE f + 1

-----------------------------------------------------------------------------
(* Vocabulary tables                                                        *)

\* str.lower() on the keys of the model
Lower(s) ==
    IF s \notin {"Grace", "Mercy", "John", "The", "Amen", "John 3:16", "John 3:17",
                 "Title", "Text", "BODY", "See", "JOHN", "Corinthians", "Song",
                 "Songs"}
    THEN s ELSE
    CASE s = "Grace" -> "grace"
      [] s = "Mercy" -> "mercy"
      [] s = "John" -> "john"
      [] s = "The" -> "the"
      [] s = "Amen" -> "amen"
      [] s = "John 3:16" -> "john 3:16"
      [] s = "John 3:17" -> "john 3:17"
      [] s = "Title" -> "title"
      [] s = "Text" -> "text"
      [] s = "BODY" -> "body"
      [] s = "See" -> "see"
      [] s = "JOHN" -> "john"
      [] s = "Corinthians" -> "corinthians"
      [] s = "Song" -> "song"
      [] s = "Songs" -> "songs"
      [] OTHER -> s

\* str.strip() on the strings of the model
Strip(s) == IF s = " " THEN "" ELSE s

\* f"{left} {right}"
Phrase(left, right) == left \o " " \o right

\* iteration order of a Python set of strings: fixed by the process's hash
\* seed, not by the strings; two seeds give the two orders of the model
HashRank(s) ==
    LET r == CASE s = "grace" -> 1 [] s = "Grace" -> 2 [] s = "mercy" -> 3
               [] s = "Amen" -> 4 [] s = "amen" -> 5 [] s = "John 3:16" -> 6
               [] s = "john 3:16" -> 7 [] s = "grace mercy" -> 8
               [] s = "god's" -> 9 [] OTHER -> 10 + Len(s)
    IN IF hashSeed = 0 THEN r ELSE 0 - r

RECURSIVE SetIter(_)
SetIter(S) ==
    IF S = {} THEN <<>>
    ELSE LET x == CHOOSE y \in S : \A z \in S : HashRank(y) <= HashRank(z)
         IN <<x>> \o SetIter(S \ {x})

-----------------------------------------------------------------------------
(* Weight engine: compute_word_weights                                      *)

\* if boost_multiplier != 1.0: current = int(round(current * boost_multiplier))
ApplyBoost(current, m) ==
    IF ~RatEq(m, Rat(1, 1)) THEN RoundHalfEven(current * m.n, m.d) ELSE current

\* if manual_adjustment: current = max(0, int(round(current + manual_adjustment)))
ApplyManual(current, adj) ==
    IF adj.n /= 0 THEN Max(0, RoundHalfEven(current * adj.d + adj.n, adj.d))
    ELSE current

\* manual_adjustments.get(key, manual_adjustments.get(lowered, 0.0))
ManualFor(manual_adjustments, key) ==
    Get(manual_adjustments, key, Get(manual_adjustments, Lower(key), Rat(0, 1)))

\* boost_map.get(lowered, 1.0)
BoostFor(boost_map, key) == Get(boost_map, Lower(key), Rat(1, 1))

\* the adjacent pairs of tokens that are keys of the boost map
BigramSeq(tokens, boost_map) ==
    LET all == [i \in 1..(Len(tokens) - 1) |-> Phrase(tokens[i], tokens[i + 1])]
    IN Restrict(all, DOMAIN boost_map)

\* the loop over all_keys: bigrams are the boosted pairs found, countKeys
\* the keys of counts in insertion order; the loop appends to final_counts
\* the keys that are not in counts, in the order it meets them
WeighKeys(tokens, references, bigrams, countKeys, all_keys, boost_map, reference_weight, manual_adjustments) ==
    LET base(k) == Count(tokens, k)
        refBonus(k) == reference_weight * Count(references, k)
        counts(k) == base(k) + refBonus(k) + Count(bigrams, k)
        final(k) == ApplyManual(ApplyBoost(counts(k), BoostFor(boost_map, k)),
                                ManualFor(manual_adjustments, k))
    IN [order |-> countKeys \o SetIter(all_keys \ Range(countKeys)),
        weights |-> [k \in all_keys |-> final(k)],
        stats |-> [k \in all_keys |->
                     [key |-> k,
                      base_count |-> base(k),
                      reference_bonus |-> refBonus(k),
                      bigram_count |-> Count(bigrams, k),
                      boost_multiplier |-> BoostFor(boost_map, k),
                      manual_adjustment |-> ManualFor(manual_adjustments, k),
                      final_count |-> final(k)]]]

\* mutant of Counted: all_keys without the keys of manual_adjustments
CountedWithoutManual(tokens, references, bigrams, boost_map, reference_weight, manual_adjustments) ==
    WeighKeys(tokens, references, bigrams,
              Dedup(tokens \o references \o bigrams),
              Range(tokens \o references \o bigrams),
              boost_map, reference_weight, manual_adjustments)

\* counts with its keys in insertion order: tokens, references, bigrams
Counted(tokens, references, bigrams, boost_map, reference_weight, manual_adjustments) ==
    WeighKeys(tokens, references, bigrams,
              Dedup(tokens \o references \o bigrams),
              Range(tokens \o references \o bigrams) \cup DOMAIN manual_adjustments,
              boost_map, reference_weight, manual_adjustments)

\* mutant of compute_word_weights: the pairs formed over the tokens followed
\* by the references
WeightsPairingReferences(tokens, references, boost_map, reference_weight, manual_adjustments) ==
    Counted(tokens, references, BigramSeq(tokens \o references, boost_map),
            boost_map, reference_weight, manual_adjustments)

\* mutant of compute_word_weights: base_counts kept from the call before
WeightsCarriedOver(tokens, references, boost_map, reference_weight, manual_adjustments) ==
    Counted((IF wOut.done THEN wIn.tokens ELSE <<>>) \o tokens, references,
            BigramSeq(tokens, boost_map), boost_map, reference_weight,
            manual_adjustments)

\* returns [order, weights, stats]: weights is the returned final_counts dict
\* (order = its key order), stats the returned WordCountStat dict
compute_word_weights(tokens, references, boost_map, reference_weight, manual_adjustments) ==
    Counted(tokens, references, BigramSeq(tokens, boost_map), boost_map,
            reference_weight, manual_adjustments)

-----------------------------------------------------------------------------
(* Reference detector: REF_REGEX and norm_ref. A text is the sequence of    *)
(* its whitespace-delimited words.                                          *)

\* BOOK_NAMES: the names the model's texts can spell, in the order of the
\* list, each as its lowercased words (the pattern ignores case)
BOOK_NAMES == << <<"song", "of", "songs">>, <<"john">>, <<"1", "corinthians">>, <<"1", "john">> >>

\* the part of a word that \d+(?::\d+(?:-\d+)?)?\b matches from the word's
\* start, None when the word does not start with such a part
ChapterVerseOf(word) ==
    CASE word \in {"1", "3", "3:16", "3:17", "13:4-7"} -> word
      [] word = "13:4-7." -> "13:4-7"
      [] word = "3:16," -> "3:16"
      [] OTHER -> None

\* whether BOOK_NAMES[b], then whitespace and a chapter, match at word i
BookMatchesAt(body, i, b) ==
    LET name == BOOK_NAMES[b]
    IN /\ i + Len(name) <= Len(body)
       /\ \A j \in 1..Len(name) : Lower(body[i + j - 1]) = name[j]
       /\ ChapterVerseOf(body[i + Len(name)]) /= None

\* the alternative of BOOK_PATTERN the match at word i takes: the first of
\* the list for which the whole pattern matches; 0 when none does
BookAt(body, i) ==
    LET hits == {b \in 1..Len(BOOK_NAMES) : BookMatchesAt(body, i, b)}
    IN IF hits = {} THEN 0 ELSE CHOOSE b \in hits : \A c \in hits : b <= c

\* str.isalpha()
IsAlpha(word) == word \notin {"1", "3", "3:16", "3:17", "13:4-7", "13:4-7.", "3:16,"}

\* str.capitalize()
Capitalize(word) ==
    CASE Lower(word) = "john" -> "John"
      [] Lower(word) = "corinthians" -> "Corinthians"
      [] Lower(word) = "song" -> "Song"
      [] Lower(word) = "songs" -> "Songs"
      [] Lower(word) = "of" -> "Of"
      [] Lower(word) = "see" -> "See"
      [] OTHER -> word

\* " ".join(parts)
RECURSIVE JoinWords(_)
JoinWords(parts) ==
    IF parts = <<>> THEN ""
    ELSE IF Len(parts) = 1 THEN parts[1]
    ELSE Phrase(parts[1], JoinWords(Tail(parts)))

\* mutant of norm_ref: the match as it is spelled in the text
NormRefAsSpelled(parts) == JoinWords(parts)

\* norm_ref on the words of a match (match.split()), which are two or more
norm_ref(parts) ==
    LET book == JoinWords([i \in 1..(Len(parts) - 1) |->
                    IF IsAlpha(parts[i]) THEN Capitalize(parts[i]) ELSE parts[i]])
        suffix == parts[Len(parts)]
    IN Phrase(book, suffix)

\* REF_REGEX.finditer(text) from word i on: matches do not overlap, the scan
\* goes on after the chapter of a match
RECURSIVE FindFrom(_, _)
FindFrom(body, i) ==
    IF i >= Len(body) THEN <<>>
    ELSE LET b == BookAt(body, i)
         IN IF b = 0 THEN FindFrom(body, i + 1)
            ELSE LET n == Len(BOOK_NAMES[b])
                     matched == SubSeq(body, i, i + n - 1)
                                  \o <<ChapterVerseOf(body[i + n])>>
                 IN <<norm_ref(matched)>> \o FindFrom(body, i + n + 1)

\* [norm_ref(m.group(0)) for m in REF_REGEX.finditer(text)]
FindReferences(body) == FindFrom(body, 1)

\* value.split(): the words of a key of the weight mapping
KeyWords(value) ==
    CASE value = "John 3:16" -> <<"John", "3:16">>
      [] value = "john 3:16" -> <<"john", "3:16">>
      [] value = "John 3:17" -> <<"John", "3:17">>
      [] value = "john 3:17" -> <<"john", "3:17">>
      [] value = "see John 3:16" -> <<"see", "John", "3:16">>
      [] value = "grace mercy" -> <<"grace", "mercy">>
      [] OTHER -> <<value>>

-----------------------------------------------------------------------------
(* Size normalizer: weight_for, normalize_items                             *)

\* REF_REGEX.search(value): a scripture reference occurs somewhere in value
is_scripture_ref(value) == FindReferences(KeyWords(value)) /= <<>>

\* re.fullmatch(r"[A-Za-z]+(?: [A-Za-z]+)*", key)
IsAlphaPhrase(key) ==
    key \in {"grace", "Grace", "mercy", "amen", "Amen", "grace mercy", "john",
             "title", "body", "ox", "really"}

\* mutant of FractionBelow: "fraction <= threshold" instead of "<"
FractionBelowOrEqual(rank, total, threshold) ==
    rank * threshold.d <= threshold.n * Max(total - 1, 1)

\* fraction < threshold, with fraction = rank / max(total - 1, 1)
FractionBelow(rank, total, threshold) ==
    rank * threshold.d < threshold.n * Max(total - 1, 1)

RECURSIVE ScanBreaks(_, _, _)
ScanBreaks(rank, total, breaks) ==
    IF breaks = <<>> THEN "500"
    ELSE IF FractionBelow(rank, total, Head(breaks).threshold)
         THEN Head(breaks).weight
         ELSE ScanBreaks(rank, total, Tail(breaks))

weight_for(rank, total, breaks) ==
    IF total <= 1 THEN "600" ELSE ScanBreaks(rank, total, breaks)

DEFAULT_WEIGHT_BREAKS ==
    << [threshold |-> Rat(4, 100), weight |-> "900"],
       [threshold |-> Rat(12, 100), weight |-> "800"],
       [threshold |-> Rat(30, 100), weight |-> "700"],
       [threshold |-> Rat(60, 100), weight |-> "600"] >>

\* sorted(pairs, key=value, reverse=True): stable, so equal weights keep the
\* order of the mapping
\* mutant of InsertDesc: an unstable sort, equal weights come out reversed
RECURSIVE InsertDescUnstable(_, _, _)
InsertDescUnstable(sorted, k, w) ==
    IF sorted = <<>> THEN <<k>>
    ELSE IF w[Head(sorted)] > w[k]
         THEN <<Head(sorted)>> \o InsertDescUnstable(Tail(sorted), k, w)
         ELSE <<k>> \o sorted

RECURSIVE InsertDesc(_, _, _)
InsertDesc(sorted, k, w) ==
    IF sorted = <<>> THEN <<k>>
    ELSE IF w[Head(sorted)] >= w[k]
         THEN <<Head(sorted)>> \o InsertDesc(Tail(sorted), k, w)
         ELSE <<k>> \o sorted

RECURSIVE SortDesc(_, _)
SortDesc(keys, w) ==
    IF keys = <<>> THEN <<>>
    ELSE InsertDesc(SortDesc(SubSeq(keys, 1, Len(keys) - 1), w), keys[Len(keys)], w)

\* seq[:n] of Python: a negative n counts from the end
SliceTo(seq, n) ==
    IF n >= 0 THEN SubSeq(seq, 1, Min(n, Len(seq)))
    ELSE SubSeq(seq, 1, Max(Len(seq) + n, 0))

\* curve = 1.0 - (rank / max(total - 1, 1)) ** curve_power, scaled by s >= 0,
\* compared with an integer k exactly (curve_power = p.n / p.d > 0,
\* D = max(total - 1, 1)):
\*   k <= s * curve  <=>  s^p.d * rank^p.n <= (s - k)^p.d * D^p.n
CurveAtLeast(k, s, rank, total, p) ==
    (s ^ p.d) * (rank ^ p.n) <= ((s - k) ^ p.d) * (Max(total - 1, 1) ^ p.n)

\*   k >= s * curve  <=>  s^p.d * rank^p.n >= (s - k)^p.d * D^p.n
CurveAtMost(k, s, rank, total, p) ==
    (s ^ p.d) * (rank ^ p.n) >= ((s - k) ^ p.d) * (Max(total - 1, 1) ^ p.n)

\* floor(s * curve): the largest k with k <= s * curve
CurveFloor(s, rank, total, p) ==
    CHOOSE k \in 0..s :
        /\ CurveAtLeast(k, s, rank, total, p)
        /\ k < s => ~CurveAtLeast(k + 1, s, rank, total, p)

\* ceil(s * curve): the smallest k with k >= s * curve
CurveCeil(s, rank, total, p) ==
    CHOOSE k \in 0..s :
        /\ CurveAtMost(k, s, rank, total, p)
        /\ k > 0 => ~CurveAtMost(k - 1, s, rank, total, p)

\* int(base + sign * x) for lo <= x <= hi, lo and hi the floor and ceiling
\* of x: astype(int) truncates toward zero
TowardZero(base, sign, lo, hi) ==
    IF sign > 0
    THEN (IF base + lo >= 0 THEN base + lo ELSE base + hi)
    ELSE (IF base - hi >= 0 THEN base - hi ELSE base - lo)

\* mutant of SizeAt: the curve without its "1.0 -", so it grows with rank
SizeAtRising(rank, total, min_font, max_font, p) ==
    IF max_font - min_font >= 0
    THEN TowardZero(min_font, 1,
             CurveFloor(max_font - min_font, Max(total - 1, 1) - rank, total, p),
             CurveCeil(max_font - min_font, Max(total - 1, 1) - rank, total, p))
    ELSE TowardZero(min_font, -1,
             CurveFloor(min_font - max_font, Max(total - 1, 1) - rank, total, p),
             CurveCeil(min_font - max_font, Max(total - 1, 1) - rank, total, p))

\* (min_font + (max_font - min_font) * curve).astype(int)
SizeAt(rank, total, min_font, max_font, p) ==
    IF max_font - min_font >= 0
    THEN TowardZero(min_font, 1,
             CurveFloor(max_font - min_font, rank, total, p),
             CurveCeil(max_font - min_font, rank, total, p))
    ELSE TowardZero(min_font, -1,
             CurveFloor(min_font - max_font, rank, total, p),
             CurveCeil(min_font - max_font, rank, total, p))

\* the list comprehension over enumerate(sorted_items)
RenderList(sorted_items, min_font, max_font, curve_power, weight_breaks) ==
    [idx \in 1..Len(sorted_items) |->
        [text |-> sorted_items[idx],
         size |-> SizeAt(idx - 1, Len(sorted_items), min_font, max_font, curve_power),
         weight |-> weight_for(idx - 1, Len(sorted_items), weight_breaks)]]

\* items: [order, weights], an insertion-ordered dict of key -> int
normalize_items(items, max_items, min_font, max_font, curve_power, weight_breaks) ==
    RenderList(
        SliceTo(SortDesc(Restrict(items.order,
                             {k \in Range(items.order) :
                                 is_scripture_ref(k) \/ IsAlphaPhrase(k)}),
                         items.weights),
                max_items),
        min_font, max_font, curve_power, weight_breaks)

-----------------------------------------------------------------------------
(* Lexicon and configuration, restricted to the vocabulary of the model     *)

\* STOP_GROUPS: the words of each group that occur in the model's files
STOP_GROUPS(name) ==
    CASE name = "base" -> {"the", "and", "of"}
      [] name = "fillers" -> {"really"}
      [] OTHER -> {}

DEFAULT_STOP_GROUPS == {"base", "fillers"}

KEEP_SHORT == {"grace", "john"}

BOOST_MAP == [k \in {"grace", "mercy"} |-> Rat(2, 1)]

DEFAULT_JSON_KEYS ==
    {"plaintext", "text", "body", "content", "excerpt", "summary", "description"}

\* WordCloudConfig.stopwords()
stopwords(config) ==
    ((UNION {STOP_GROUPS(g) : g \in config.enabled_stop_groups})
        \cup {Lower(w) : w \in config.extra_stopwords})
    \ {Lower(w) : w \in config.remove_stopwords}

\* WordCloudConfig.keep_short()
keep_short(config) == KEEP_SHORT \cup {Lower(w) : w \in config.keep_short_extra}

\* WordCloudConfig.resolved_json_keys()
resolved_json_keys(config) ==
    IF config.collect_all_json_strings THEN {}
    ELSE IF config.json_text_keys /= {}
         THEN {Lower(Strip(w)) : w \in {k \in config.json_text_keys : Strip(k) /= ""}}
    ELSE DEFAULT_JSON_KEYS

\* dict.update: the entries of b override those of a
MapUpdate(a, b) ==
    [k \in DOMAIN a \cup DOMAIN b |-> IF k \in DOMAIN b THEN b[k] ELSE a[k]]

\* app.parse_stopword_groups; a payload without the option carries the default
parse_stopword_groups(payload) ==
    {g \in payload.stopwordGroups : g \in {"base", "fillers"}}

\* app.parse_boosts on a mapping: the factors under lowercased phrases
parse_boosts(payload) ==
    [k \in {Lower(p) : p \in DOMAIN payload.boosts} |->
        payload.boosts[CHOOSE p \in DOMAIN payload.boosts : Lower(p) = k]]

\* app.parse_manual_adjustments on a mapping: the adjustments under their
\* stripped keys, which keep their case
parse_manual_adjustments(payload) ==
    [k \in DOMAIN payload.manualAdjustments |-> payload.manualAdjustments[k]]

\* app.build_config: the WordCloudConfig of a request payload
build_config(payload) ==
    [enabled_stop_groups |-> parse_stopword_groups(payload),
     extra_stopwords |-> {Lower(w) : w \in payload.extraStopwords},
     remove_stopwords |-> {Lower(w) : w \in payload.removeStopwords},
     keep_short_extra |-> {Lower(w) : w \in payload.keepShort},
     max_items |-> payload.maxItems,
     max_font_size |-> payload.maxFont,
     min_font_size |-> payload.minFont,
     size_curve_power |-> payload.curvePower,
     min_token_length |-> 3,
     reference_weight |-> payload.referenceWeight,
     boost_map |-> MapUpdate(BOOST_MAP, parse_boosts(payload)),
     weight_breaks |-> DEFAULT_WEIGHT_BREAKS,
     detect_references |-> payload.detectReferences,
     json_text_keys |-> {Lower(w) : w \in {k \in payload.jsonKeys : Strip(k) /= ""}},
     collect_all_json_strings |-> payload.collectAllJsonStrings,
     manual_weight_adjustments |-> parse_manual_adjustments(payload)]

-----------------------------------------------------------------------------
(* Tokenizer and reference detector, on text as a sequence of raw words     *)

\* the lowercased, cleaned pieces of one whitespace-delimited word of the
\* text: tokenize_text's substitutions and split_weird_token
Pieces(word) ==
    CASE word = "3:16" -> <<"3", "16">>
      [] word = "3:16," -> <<"3", "16">>
      [] word = "3:17" -> <<"3", "17">>
      [] word = "13:4-7." -> <<"13", "4-7">>
      [] OTHER -> <<Lower(word)>>

\* re.fullmatch(r"[a-z]+'?[a-z]*", token)
IsWordToken(token) == token \notin {"1", "3", "13", "16", "17", "4-7"}

RECURSIVE FlattenSeqs(_)
FlattenSeqs(seqs) ==
    IF seqs = <<>> THEN <<>> ELSE Head(seqs) \o FlattenSeqs(Tail(seqs))

RECURSIVE FilterTokens(_, _, _, _)
FilterTokens(raw_tokens, stop, keep, min_length) ==
    IF raw_tokens = <<>> THEN <<>>
    ELSE LET token == Head(raw_tokens)
             rest == FilterTokens(Tail(raw_tokens), stop, keep, min_length)
         IN IF \/ token \in stop
               \/ ~IsWordToken(token)
               \/ (Len(token) < min_length /\ token \notin keep)
            THEN rest
            ELSE <<token>> \o rest

\* tokenize_text on a text given as its words, the pieces of each word and
\* the pattern test being tables
TokenizeWords(body, stop, keep, min_length) ==
    FilterTokens(FlattenSeqs([i \in 1..Len(body) |-> Pieces(body[i])]),
                 stop, keep, min_length)

-----------------------------------------------------------------------------
(* The tokenizer on characters: a text is a sequence of one-character       *)
(* strings over Alphabet, a token the sequence of its characters            *)

Letters == {"a", "b"}

Digits == {"1"}

Alphabet == Letters \cup Digits \cup {"B", "-", "'", "!", " "}

\* body.lower()
LowerChar(c) == IF c = "B" THEN "b" ELSE c

\* the substitutions of tokenize_text on one character: what is not in
\* [a-z0-9\s'-] becomes a space (no text over Alphabet holds a URL or a
\* Markdown link)
CleanChar(c) == IF c \in Letters \cup Digits \cup {" ", "'", "-"} THEN c ELSE " "

\* str.split(): the maximal runs of characters that are not spaces; word is
\* the run being read
RECURSIVE SplitSpaces(_, _)
SplitSpaces(chars, word) ==
    IF chars = <<>> THEN (IF word = <<>> THEN <<>> ELSE <<word>>)
    ELSE IF Head(chars) = " "
         THEN (IF word = <<>> THEN <<>> ELSE <<word>>) \o SplitSpaces(Tail(chars), <<>>)
         ELSE SplitSpaces(Tail(chars), Append(word, Head(chars)))

\* re.sub(r"([L])([R])", r"\1 \2", token): a space between every match of a
\* character of L followed by one of R; the scan goes on after the match
RECURSIVE InsertBetween(_, _, _)
InsertBetween(chars, L, R) ==
    IF Len(chars) < 2 THEN chars
    ELSE IF chars[1] \in L /\ chars[2] \in R
         THEN <<chars[1], " ", chars[2]>> \o InsertBetween(SubSeq(chars, 3, Len(chars)), L, R)
         ELSE <<chars[1]>> \o InsertBetween(Tail(chars), L, R)

split_weird_token(token) ==
    SplitSpaces(InsertBetween(InsertBetween(InsertBetween(token, Letters, {"B"}),
                                            Letters, Digits),
                              Digits, Letters),
                <<>>)

\* token.strip("-'")
RECURSIVE StripEnds(_)
StripEnds(token) ==
    IF token = <<>> THEN token
    ELSE IF Head(token) \in {"-", "'"} THEN StripEnds(Tail(token))
    ELSE IF token[Len(token)] \in {"-", "'"} THEN StripEnds(SubSeq(token, 1, Len(token) - 1))
    ELSE token

\* re.fullmatch(r"[a-z]+'?[a-z]*", token)
FullMatchWord(token) ==
    \E k \in 1..Len(token) :
       /\ \A i \in 1..k : token[i] \in Letters
       /\ \/ k = Len(token)
          \/ /\ token[k + 1] = "'"
             /\ \A i \in (k + 2)..Len(token) : token[i] \in Letters

\* mutant of CleanedTokens: the length test without the allowlist
RECURSIVE CleanedNoAllowlist(_, _, _, _)
CleanedNoAllowlist(raw_tokens, stop, keep, min_length) ==
    IF raw_tokens = <<>> THEN <<>>
    ELSE LET token == StripEnds(Head(raw_tokens))
             rest == CleanedNoAllowlist(Tail(raw_tokens), stop, keep, min_length)
         IN IF \/ token = <<>>
               \/ token \in stop
               \/ ~FullMatchWord(token)
               \/ Len(token) < min_length
            THEN rest
            ELSE <<token>> \o rest

\* the loop of tokenize_text over raw_tokens
RECURSIVE CleanedTokens(_, _, _, _)
CleanedTokens(raw_tokens, stop, keep, min_length) ==
    IF raw_tokens = <<>> THEN <<>>
    ELSE LET token == StripEnds(Head(raw_tokens))
             rest == CleanedTokens(Tail(raw_tokens), stop, keep, min_length)
         IN IF \/ token = <<>>
               \/ token \in stop
               \/ ~FullMatchWord(token)
               \/ (Len(token) < min_length /\ token \notin keep)
            THEN rest
            ELSE <<token>> \o rest

tokenize_text(body, stop, keep, min_length) ==
    LET text == [i \in 1..Len(body) |-> CleanChar(LowerChar(body[i]))]
        chunks == SplitSpaces(text, <<>>)
        raw_tokens == FlattenSeqs([i \in 1..Len(chunks) |-> split_weird_token(chunks[i])])
    IN CleanedTokens(raw_tokens, stop, keep, min_length)

extract_tokens_and_references(text, config) ==
    [tokens |-> TokenizeWords(text, stopwords(config), keep_short(config),
                              config.min_token_length),
     references |-> IF config.detect_references THEN FindReferences(text) ELSE <<>>]

-----------------------------------------------------------------------------
(* Extraction adapters. A JSON value is [t, s, items]: t = "str" with the   *)
(* words s, or t = "map" / "list" with items = <<[k, v], ...>>.             *)

JStr(words) == [t |-> "str", s |-> words, items |-> <<>>]

JMap(items) == [t |-> "map", s |-> <<>>, items |-> items]

JList(values) ==
    [t |-> "list", s |-> <<>>, items |-> [i \in 1..Len(values) |-> [k |-> "", v |-> values[i]]]]

\* mutant of iter_json_strings: a mapping passes on only its own key's match
RECURSIVE IterNoInherit(_, _, _, _)
IterNoInherit(value, keys, collect_all, include) ==
    IF value.t = "str"
    THEN IF collect_all \/ include \/ keys = {} THEN <<value.s>> ELSE <<>>
    ELSE IF value.t = "map"
    THEN FlattenSeqs([i \in 1..Len(value.items) |->
            IterNoInherit(value.items[i].v, keys, collect_all,
                collect_all \/ Lower(value.items[i].k) \in keys)])
    ELSE FlattenSeqs([i \in 1..Len(value.items) |->
            IterNoInherit(value.items[i].v, keys, collect_all, include)])

\* _iter_json_strings: the strings collected, in document order
RECURSIVE iter_json_strings(_, _, _, _)
iter_json_strings(value, keys, collect_all, include) ==
    IF value.t = "str"
    THEN IF collect_all \/ include \/ keys = {} THEN <<value.s>> ELSE <<>>
    ELSE IF value.t = "map"
    THEN FlattenSeqs([i \in 1..Len(value.items) |->
            iter_json_strings(value.items[i].v, keys, collect_all,
                collect_all \/ Lower(value.items[i].k) \in keys \/ include)])
    ELSE FlattenSeqs([i \in 1..Len(value.items) |->
            iter_json_strings(value.items[i].v, keys, collect_all, include)])

\* dict.get(name, default) on a JSON mapping
JGet(value, name, default) ==
    LET hits == {i \in 1..Len(value.items) : value.items[i].k = name}
    IN IF hits = {} THEN default
       ELSE value.items[CHOOSE i \in hits : \A j \in hits : j <= i].v

\* extract_posts and the comprehension over it: [ok, strings]; ok is FALSE
\* when an index or attribute lookup on the legacy path raises
LegacyPlaintext(payload) ==
    LET db == JGet(payload, "db", JList(<<JMap(<<>>)>>))
        first == db.items[1].v
        data == JGet(first, "data", JMap(<<>>))
        posts == JGet(data, "posts", JList(<<>>))
        failed == [ok |-> FALSE, strings |-> <<>>]
    IN IF db.t /= "list" \/ db.items = <<>> THEN failed
       ELSE IF first.t /= "map" THEN failed
       ELSE IF data.t /= "map" THEN failed
       ELSE IF posts.t = "str" THEN
            IF posts.s = <<>> THEN [ok |-> TRUE, strings |-> <<>>] ELSE failed
       ELSE IF posts.t = "map" THEN
            IF posts.items = <<>> THEN [ok |-> TRUE, strings |-> <<>>] ELSE failed
       ELSE IF \E i \in 1..Len(posts.items) : posts.items[i].v.t /= "map" THEN failed
       ELSE LET texts == [i \in 1..Len(posts.items) |->
                             JGet(posts.items[i].v, "plaintext", JStr(<<>>))]
            IN IF \E i \in 1..Len(texts) :
                     texts[i].t /= "str" /\ texts[i].items /= <<>>
               THEN failed
               ELSE [ok |-> TRUE, strings |-> [i \in 1..Len(texts) |-> texts[i].s]]

\* mutant of extract_text_from_json_payload: the fallback taken whenever
\* the first pass collected no non-empty string
ExtractFallbackOnEmptyText(payload, config) ==
    LET keys == resolved_json_keys(config)
        strings == iter_json_strings(payload, keys, config.collect_all_json_strings, FALSE)
    IN IF FlattenSeqs(strings) = <<>> /\ ~config.collect_all_json_strings
          /\ "plaintext" \notin keys
       THEN IF payload.t = "map"
            THEN LET legacy == LegacyPlaintext(payload)
                 IN [ok |-> legacy.ok, text |-> FlattenSeqs(legacy.strings)]
            ELSE [ok |-> TRUE, text |-> <<>>]
       ELSE [ok |-> TRUE, text |-> FlattenSeqs(strings)]

\* extract_text_from_json_payload: [ok, text]
extract_text_from_json_payload(payload, config) ==
    LET keys == resolved_json_keys(config)
        strings == iter_json_strings(payload, keys, config.collect_all_json_strings, FALSE)
    IN IF strings = <<>> /\ ~config.collect_all_json_strings /\ "plaintext" \notin keys
       THEN IF payload.t = "map"
            THEN LET legacy == LegacyPlaintext(payload)
                 IN [ok |-> legacy.ok, text |-> FlattenSeqs(legacy.strings)]
            ELSE [ok |-> TRUE, text |-> <<>>]
       ELSE [ok |-> TRUE, text |-> FlattenSeqs(strings)]

\* the words of a JSON document read as plain text: keys and strings in order
RECURSIVE RawWords(_)
RawWords(value) ==
    IF value.t = "str" THEN value.s
    ELSE FlattenSeqs([i \in 1..Len(value.items) |->
            (IF value.t = "map" THEN <<value.items[i].k>> ELSE <<>>)
                \o RawWords(value.items[i].v)])

-----------------------------------------------------------------------------
(* Input files                                                              *)

\* the files under BASE_DIR that exist
Paths == {"a.json", "b.txt"}

PayloadA1 ==
    JMap(<< [k |-> "Title", v |-> JStr(<<"Grace", "mercy">>)],
            [k |-> "body", v |-> JStr(<<"the", "ox", "John", "3:16">>)] >>)

PayloadA2 ==
    JMap(<< [k |-> "Title", v |-> JStr(<<"mercy">>)],
            [k |-> "body", v |-> JStr(<<"Grace", "ox", "john", "3:17">>)] >>)

\* what a file holds when its modification time is mtime: every write
\* changes both; b.txt is not a JSON document
FileJson(path, mtime) ==
    IF path = "a.json"
    THEN [ok |-> TRUE, value |-> IF mtime % 2 = 1 THEN PayloadA1 ELSE PayloadA2]
    ELSE [ok |-> FALSE, value |-> JStr(<<>>)]

FileText(path, mtime) ==
    IF path = "a.json" THEN RawWords(FileJson(path, mtime).value)
    ELSE IF mtime % 2 = 1 THEN <<"Grace", "the", "John", "3:16">>
    ELSE <<"mercy", "mercy">>

\* target.suffix.lower() == ".json"
HasJsonSuffix(path) == path \in {"a.json", "missing.json"}

\* BASE_DIR in candidate.parents, candidate being (BASE_DIR / path_str).resolve()
InsideBase(path_str) == path_str \notin {"../secret.txt", "../nothing.txt"}

\* candidate.exists(): the files under BASE_DIR and one file beside it
Exists(path_str) == path_str \in Paths \cup {"../secret.txt"}

\* resolve_input_path with the two tests in the other order
ResolveExistsFirst(path_str) ==
    IF ~Exists(path_str) THEN "FileNotFoundError"
    ELSE IF ~InsideBase(path_str) THEN "ValueError"
    ELSE "ok"

\* resolve_input_path: ValueError outside BASE_DIR, else FileNotFoundError
resolve_input_path(path_str) ==
    IF ~InsideBase(path_str) THEN "ValueError"
    ELSE IF ~Exists(path_str) THEN "FileNotFoundError"
    ELSE "ok"

-----------------------------------------------------------------------------
(* Pipeline entry points of wordcloud_core                                  *)

NoResult ==
    [words |-> <<>>, stats |-> EmptyMap,
     weights |-> [order |-> <<>>, weights |-> EmptyMap], references |-> <<>>]

\* the returned tuple, cw being what compute_word_weights returned
WordsAndStats(cw, references, config) ==
    [words |-> normalize_items([order |-> cw.order, weights |-> cw.weights],
                               config.max_items, config.min_font_size,
                               config.max_font_size, config.size_curve_power,
                               config.weight_breaks),
     stats |-> cw.stats,
     weights |-> [order |-> cw.order, weights |-> cw.weights],
     references |-> references]

generate_words_and_stats_from_tokens(tokens, references, config) ==
    WordsAndStats(compute_word_weights(tokens, references, config.boost_map,
                                       config.reference_weight,
                                       config.manual_weight_adjustments),
                  references, config)

\* prepare_word_data: tokens and references when they are not passed in
TokensAndReferences(tr, config) ==
    generate_words_and_stats_from_tokens(tr.tokens, tr.references, config)

\* prepare_word_data followed by normalize_items
generate_words_and_stats_from_text(text, config) ==
    TokensAndReferences(extract_tokens_and_references(text, config), config)

\* kind of generate_words_and_stats_from_file: file_type is "auto", "json"
\* or "text"
KindOf(path, file_type) ==
    IF file_type = "auto" THEN (IF HasJsonSuffix(path) THEN "json" ELSE "text")
    ELSE file_type

\* load_text_from_json_path / load_text_from_text_path: [ok, text]
LoadText(path, kind, config) ==
    IF kind = "json"
    THEN IF FileJson(path, fs[path]).ok
         THEN extract_text_from_json_payload(FileJson(path, fs[path]).value, config)
         ELSE [ok |-> FALSE, text |-> <<>>]
    ELSE [ok |-> TRUE, text |-> FileText(path, fs[path])]

\* a request payload with every option at its default, but for the fonts
BasePayload ==
    [jsonPath |-> "a.json", fileType |-> "auto", skipCache |-> FALSE,
     stopwordGroups |-> DEFAULT_STOP_GROUPS, extraStopwords |-> {},
     removeStopwords |-> {}, keepShort |-> {}, maxItems |-> 420,
     maxFont |-> 8, minFont |-> 2, curvePower |-> Rat(3, 4),
     referenceWeight |-> 4, boosts |-> EmptyMap, detectReferences |-> TRUE,
     jsonKeys |-> {}, collectAllJsonStrings |-> FALSE,
     manualAdjustments |-> EmptyMap]

\* a prepared dict: given says it is not None, filled that it holds tokens
\* and references; src and by are history: what the tokens were computed
\* from, and the payload of the request that created the dict
NoSrc ==
    [path |-> None, kind |-> None, mtime |-> 0, stopwords |-> {}, keep_short |-> {},
     min_token_length |-> 0, collect_all |-> FALSE, json_keys |-> {},
     detect_references |-> FALSE]

NotPrepared ==
    [given |-> FALSE, filled |-> FALSE, tokens |-> <<>>, references |-> <<>>,
     src |-> NoSrc, by |-> BasePayload]

EmptyPrepared == [NotPrepared EXCEPT !.given = TRUE]

\* history: the file state and options a pipeline run reads
SourceOf(path, kind, config) ==
    [path |-> path, kind |-> kind, mtime |-> fs[path],
     stopwords |-> stopwords(config), keep_short |-> keep_short(config),
     min_token_length |-> config.min_token_length,
     collect_all |-> config.collect_all_json_strings,
     json_keys |-> config.json_text_keys,
     detect_references |-> config.detect_references]

\* prepared["tokens"] = list(tokens); prepared["references"] = list(references)
FillPrepared(prepared, tr, src) ==
    [prepared EXCEPT !.filled = TRUE, !.tokens = tr.tokens,
                     !.references = tr.references, !.src = src]

\* the branch of generate_words_and_stats_from_file that fills prepared
FromExtracted(path, config, kind, prepared, tr) ==
    [ok |-> TRUE,
     result |-> generate_words_and_stats_from_tokens(tr.tokens, tr.references, config),
     prepared |-> FillPrepared(prepared, tr, SourceOf(path, kind, config)),
     extracted |-> TRUE]

\* the part of generate_words_and_stats_from_file after the text is loaded:
\* loaded is [ok, text], ok FALSE when the load raised
FromLoaded(path, config, kind, prepared, loaded) ==
    IF ~loaded.ok
    THEN [ok |-> FALSE, result |-> NoResult, prepared |-> prepared,
          extracted |-> FALSE]
    ELSE IF prepared.given
    THEN FromExtracted(path, config, kind, prepared,
                       extract_tokens_and_references(loaded.text, config))
    ELSE [ok |-> TRUE,
          result |-> generate_words_and_stats_from_text(loaded.text, config),
          prepared |-> prepared, extracted |-> TRUE]

\* returns [ok, result, prepared, extracted]: prepared is the dict after the
\* call, extracted says the extraction and tokenization ran
generate_words_and_stats_from_file(path, config, file_type, prepared) ==
    IF prepared.given /\ prepared.filled
    THEN [ok |-> TRUE,
          result |-> generate_words_and_stats_from_tokens(
                         prepared.tokens, prepared.references, config),
          prepared |-> prepared, extracted |-> FALSE]
    ELSE FromLoaded(path, config, KindOf(path, file_type), prepared,
                    LoadText(path, KindOf(path, file_type), config))

-----------------------------------------------------------------------------
(* Token cache: an OrderedDict as a sequence of [key, entry], oldest first  *)

NoKey ==
    [path |-> None, file_type |-> None, mtime |-> 0, stopwords |-> {},
     keep_short |-> {}, min_token_length |-> 0, collect_all |-> FALSE,
     json_keys |-> {}, detect_references |-> FALSE]

\* mutant of build_token_cache_key: the modification time left out of the key
KeyWithoutMtime(path, file_type, config) ==
    [path |-> path,
     file_type |-> file_type,
     mtime |-> 0,
     stopwords |-> stopwords(config),
     keep_short |-> keep_short(config),
     min_token_length |-> config.min_token_length,
     collect_all |-> config.collect_all_json_strings,
     json_keys |-> config.json_text_keys,
     detect_references |-> config.detect_references]

\* mutant of build_token_cache_key: the reference-detection flag left out
KeyWithoutDetect(path, file_type, config) ==
    [path |-> path,
     file_type |-> file_type,
     mtime |-> fs[path],
     stopwords |-> stopwords(config),
     keep_short |-> keep_short(config),
     min_token_length |-> config.min_token_length,
     collect_all |-> config.collect_all_json_strings,
     json_keys |-> config.json_text_keys,
     detect_references |-> FALSE]

build_token_cache_key(path, file_type, config) ==
    [path |-> path,
     file_type |-> file_type,
     mtime |-> fs[path],
     stopwords |-> stopwords(config),
     keep_short |-> keep_short(config),
     min_token_length |-> config.min_token_length,
     collect_all |-> config.collect_all_json_strings,
     json_keys |-> config.json_text_keys,
     detect_references |-> config.detect_references]

CacheKeys(cache) == [i \in 1..Len(cache) |-> cache[i].key]

\* TOKEN_CACHE.get(key): the entry, NotPrepared standing for None
CacheGet(cache, key) ==
    LET hits == {i \in 1..Len(cache) : cache[i].key = key}
    IN IF hits = {} THEN NotPrepared ELSE cache[CHOOSE i \in hits : TRUE].entry

CacheHas(cache, key) == key \in Range(CacheKeys(cache))

\* TOKEN_CACHE[key] = entry: a new key goes last, a known key keeps its place
CacheSet(cache, key, entry) ==
    IF CacheHas(cache, key)
    THEN [i \in 1..Len(cache) |->
             IF cache[i].key = key THEN [key |-> key, entry |-> entry] ELSE cache[i]]
    ELSE Append(cache, [key |-> key, entry |-> entry])

\* TOKEN_CACHE.move_to_end(key), for a key that is present
MoveToEnd(cache, key) ==
    LET rest == [i \in 1..(Len(cache) - 1) |->
                    cache[IF \E j \in 1..i : cache[j].key = key THEN i + 1 ELSE i]]
    IN Append(rest, [key |-> key, entry |-> CacheGet(cache, key)])

\* mutant of EvictOver: popitem(last=True), the newest entries go first
RECURSIVE EvictNewest(_)
EvictNewest(cache) ==
    IF Len(cache) > CACHE_CAPACITY
    THEN EvictNewest(SubSeq(cache, 1, Len(cache) - 1))
    ELSE cache

\* while len(TOKEN_CACHE) > CACHE_CAPACITY: TOKEN_CACHE.popitem(last=False)
RECURSIVE EvictOver(_)
EvictOver(cache) ==
    IF Len(cache) > CACHE_CAPACITY THEN EvictOver(Tail(cache)) ELSE cache

\* entry = TOKEN_CACHE.get(key) and what follows it
Lookup(cache, key) ==
    IF CacheHas(cache, key)
    THEN [key |-> key, entry |-> CacheGet(cache, key), cache |-> MoveToEnd(cache, key)]
    ELSE [key |-> key, entry |-> NotPrepared, cache |-> cache]

\* returns [key, entry, cache]: entry.given is FALSE for None; statOk is
\* whether path.stat() succeeds
get_cached_prepared(cache, path, file_type, config, statOk) ==
    IF ~CACHE_ENABLED \/ ~statOk
    THEN [key |-> NoKey, entry |-> NotPrepared, cache |-> cache]
    ELSE Lookup(cache, build_token_cache_key(path, file_type, config))

\* mutant of store_cache_entry: the guard on the entry's fields inverted
StoreNothing(cache, cache_key, entry) ==
    IF ~CACHE_ENABLED \/ cache_key = NoKey THEN cache
    ELSE IF entry.filled THEN cache
    ELSE EvictOver(MoveToEnd(CacheSet(cache, cache_key, entry), cache_key))

\* store_cache_entry without the test of cache_key against None
StoreUnderNone(cache, cache_key, entry) ==
    IF ~CACHE_ENABLED THEN cache
    ELSE IF ~entry.filled THEN cache
    ELSE EvictOver(MoveToEnd(CacheSet(cache, cache_key, entry), cache_key))

\* returns the cache after the call
store_cache_entry(cache, cache_key, entry) ==
    IF ~CACHE_ENABLED \/ cache_key = NoKey THEN cache
    ELSE IF ~entry.filled THEN cache
    ELSE EvictOver(MoveToEnd(CacheSet(cache, cache_key, entry), cache_key))

-----------------------------------------------------------------------------
(* The /api/generate handler                                                *)

Threads == {"t1", "t2"}

\* what the handler did for the latest request
NoRequest ==
    [status |-> None, payload |-> BasePayload, kind |-> None, use_cache |-> FALSE,
     statOk |-> FALSE, key |-> NoKey, src |-> NoSrc, hit |-> FALSE,
     entry |-> NotPrepared, extracted |-> FALSE, result |-> NoResult,
     full |-> NoResult, evicted |-> 0]

\* a server thread between requests; in a request, pc is the statement it
\* is about to run, key and prepared its cache_key and prepared_entry; after
\* an exception pc is "failed" and at the statement that raised
IdleThread ==
    [pc |-> "idle", at |-> None, payload |-> BasePayload, key |-> NoKey,
     prepared |-> NotPrepared]

ErrorResponse(status, payload) ==
    [NoRequest EXCEPT !.status = status, !.payload = payload]

\* file_type after the handler's normalisation, "auto" standing for None
FileTypeOf(payload) ==
    IF Lower(payload.fileType) \in {"auto", "json", "text"}
    THEN Lower(payload.fileType) ELSE "auto"

\* the response and the cache at the end of the handler; evicted counts the
\* keys the store removed
Stored(response, before, after) ==
    [response |-> [response EXCEPT !.evicted =
                      Cardinality(Range(CacheKeys(before)) \ Range(CacheKeys(after)))],
     cache |-> after]

\* the handler from the pipeline call on: got is what the lookup returned,
\* ran what the pipeline returned, bypass what it returns without the cache;
\* a request that misses is itself a run of the pipeline on the file
Respond(seen, use_cache, got, ran, bypass) ==
    IF ~ran.ok
    THEN [response |-> [seen EXCEPT !.status = "500"], cache |-> got.cache]
    ELSE Stored([seen EXCEPT !.status = "200",
                      !.extracted = ran.extracted,
                      !.result = ran.result,
                      !.full = IF seen.hit THEN bypass.result ELSE ran.result],
                got.cache,
                IF use_cache /\ ran.prepared.given
                THEN store_cache_entry(got.cache, got.key, ran.prepared)
                ELSE got.cache)

\* the handler from the cache lookup on; prepared_entry = {} takes the
\* request's payload as its history
Serve(payload, config, file_type, resolved_kind, use_cache, statOk, got) ==
    Respond([NoRequest EXCEPT !.payload = payload, !.kind = resolved_kind,
                 !.use_cache = use_cache, !.statOk = statOk, !.key = got.key,
                 !.src = SourceOf(payload.jsonPath, resolved_kind, config),
                 !.hit = got.entry.given, !.entry = got.entry],
            use_cache, got,
            generate_words_and_stats_from_file(payload.jsonPath, config, file_type,
                IF ~use_cache THEN NotPrepared
                ELSE IF ~got.entry.given THEN [EmptyPrepared EXCEPT !.by = payload]
                ELSE got.entry),
            generate_words_and_stats_from_file(payload.jsonPath, config, file_type,
                                               NotPrepared))

\* the handler from build_config on
Resolved(cache, payload, config, file_type, resolved_kind, use_cache, statOk) ==
    Serve(payload, config, file_type, resolved_kind, use_cache, statOk,
          IF use_cache
          THEN get_cached_prepared(cache, payload.jsonPath, resolved_kind, config,
                                   statOk)
          ELSE [key |-> NoKey, entry |-> NotPrepared, cache |-> cache])

\* mutant of generate: use_cache = CACHE_ENABLED, skipCache not read
GenerateIgnoringSkip(cache, payload, statOk) ==
    IF payload.jsonPath = "" THEN
        [response |-> ErrorResponse("400", payload), cache |-> cache]
    ELSE IF resolve_input_path(payload.jsonPath) = "FileNotFoundError" THEN
        [response |-> ErrorResponse("404", payload), cache |-> cache]
    ELSE IF resolve_input_path(payload.jsonPath) = "ValueError" THEN
        [response |-> ErrorResponse("400", payload), cache |-> cache]
    ELSE Resolved(cache, payload, build_config(payload),
                  FileTypeOf(payload),
                  IF FileTypeOf(payload) /= "auto" THEN FileTypeOf(payload)
                  ELSE IF HasJsonSuffix(payload.jsonPath) THEN "json" ELSE "text",
                  CACHE_ENABLED, statOk)

\* returns the response record and the cache after the request
generate(cache, payload, statOk) ==
    IF payload.jsonPath = "" THEN
        [response |-> ErrorResponse("400", payload), cache |-> cache]
    ELSE IF resolve_input_path(payload.jsonPath) = "FileNotFoundError" THEN
        [response |-> ErrorResponse("404", payload), cache |-> cache]
    ELSE IF resolve_input_path(payload.jsonPath) = "ValueError" THEN
        [response |-> ErrorResponse("400", payload), cache |-> cache]
    ELSE Resolved(cache, payload, build_config(payload),
                  FileTypeOf(payload),
                  IF FileTypeOf(payload) /= "auto" THEN FileTypeOf(payload)
                  ELSE IF HasJsonSuffix(payload.jsonPath) THEN "json" ELSE "text",
                  CACHE_ENABLED /\ ~payload.skipCache, statOk)

-----------------------------------------------------------------------------
(* Variables a specification does not use keep these values                 *)

NoInput == [op |-> None]

NoOutput == [done |-> FALSE]

WeightsIdle == wIn = NoInput /\ wOut = NoOutput

NormalizeIdle == nIn = NoInput /\ nOut = NoOutput

TextIdle == tIn = NoInput /\ tOut = NoOutput

AliasIdle == heap = EmptyMap /\ owner = EmptyMap /\ held = 0

AppIdle ==
    /\ AliasIdle
    /\ CACHE_ENABLED = TRUE
    /\ fs = [p \in Paths |-> 1]
    /\ TOKEN_CACHE = <<>>
    /\ last = NoRequest
    /\ runs = EmptyMap
    /\ recency = <<>>
    /\ thr = [t \in Threads |-> IdleThread]
    /\ badEvict = FALSE

-----------------------------------------------------------------------------
(* compute_word_weights on enumerated arguments                             *)

TokenSeqs ==
    UNION {[1..n -> {"grace", "mercy"}] : n \in 0..MaxTokens}

ReferenceSeqs ==
    {<<>>, <<"John 3:16">>, <<"John 3:16", "John 3:16">>, <<"mercy">>,
     <<"grace", "mercy">>}

BoostMaps ==
    { EmptyMap,
      [k \in {"grace"} |-> Rat(2, 1)],
      [k \in {"grace"} |-> Rat(-2, 1)],
      [k \in {"grace", "grace mercy", "john 3:16"} |->
          CASE k = "grace" -> Rat(5, 2)
            [] k = "grace mercy" -> Rat(3, 1)
            [] OTHER -> Rat(3, 2)],
      [k \in {"grace grace", "grace mercy"} |-> Rat(2, 1)] }

ReferenceWeights == {4, 0, -1}

ManualMaps ==
    { EmptyMap,
      [k \in {"grace"} |-> Rat(-10, 1)],
      [k \in {"grace"} |-> Rat(0, 1)],
      [k \in {"grace", "Grace"} |-> IF k = "grace" THEN Rat(1, 2) ELSE Rat(3, 1)],
      [k \in {"Amen", "god's", "john 3:16"} |->
          IF k = "john 3:16" THEN Rat(-1, 2) ELSE Rat(3, 1)],
      [k \in {"John 3:16"} |-> Rat(0, 1)] }

WeightCalls ==
    [op : {"compute_word_weights"}, tokens : TokenSeqs, references : ReferenceSeqs,
     boost_map : BoostMaps, reference_weight : ReferenceWeights,
     manual_adjustments : ManualMaps]

\* the calls made between two calls with the same arguments
OtherCalls ==
    { [op |-> "compute_word_weights", tokens |-> <<"mercy", "mercy">>,
       references |-> <<"John 3:16">>, boost_map |-> EmptyMap,
       reference_weight |-> 4, manual_adjustments |-> EmptyMap],
      [op |-> "compute_word_weights", tokens |-> <<"grace", "mercy">>,
       references |-> <<"grace", "mercy">>,
       boost_map |-> [k \in {"grace grace", "grace mercy"} |-> Rat(2, 1)],
       reference_weight |-> -1,
       manual_adjustments |-> [k \in {"grace"} |-> Rat(-10, 1)]] }

InitWeights ==
    /\ hashSeed \in {0, 1}
    /\ wIn \in WeightCalls
    /\ wOut = NoOutput
    /\ NormalizeIdle
    /\ TextIdle
    /\ AppIdle

\* the first call; wOut keeps its arguments and what it returned, and
\* counts the calls
ComputeWeights ==
    /\ wIn.op = "compute_word_weights"
    /\ ~wOut.done
    /\ \E value \in {compute_word_weights(wIn.tokens, wIn.references,
                          wIn.boost_map, wIn.reference_weight,
                          wIn.manual_adjustments)} :
          wOut' = [done |-> TRUE, value |-> value, calls |-> 1,
                   first |-> [args |-> wIn, value |-> value]]
    /\ UNCHANGED <<hashSeed, CACHE_ENABLED, wIn, nIn, nOut, tIn, tOut, appVars, concVars, aliasVars>>

\* a later call, with the arguments of the first call or with others, in
\* the same process or in one with the other hash seed
ComputeWeightsAgain ==
    /\ wIn.op = "compute_word_weights"
    /\ wOut.done
    /\ wOut.calls < MaxCalls
    /\ \E args \in {wOut.first.args} \cup OtherCalls :
          /\ wIn' = args
          /\ wOut' = [wOut EXCEPT !.calls = @ + 1,
                          !.value = compute_word_weights(args.tokens,
                             args.references, args.boost_map,
                             args.reference_weight, args.manual_adjustments)]
    /\ hashSeed' \in {0, 1}
    /\ UNCHANGED <<CACHE_ENABLED, nIn, nOut, tIn, tOut, appVars, concVars, aliasVars>>

NextWeights == ComputeWeights \/ ComputeWeightsAgain

SpecWeights == InitWeights /\ [][NextWeights]_vars

-----------------------------------------------------------------------------
(* normalize_items and weight_for on enumerated arguments                   *)

NormKeys == {"grace", "mercy", "John 3:16", "god's", "see John 3:16"}

NormOrders ==
    {o \in UNION {[1..n -> NormKeys] : n \in 0..MaxKeys} :
        \A i, j \in 1..Len(o) : i /= j => o[i] /= o[j]}

NormItems ==
    UNION {{[order |-> o, weights |-> w] : w \in [Range(o) -> {1, 2}]} : o \in NormOrders}

FontPairs ==
    {[min_font |-> 2, max_font |-> 8], [min_font |-> -3, max_font |-> 3],
     [min_font |-> 5, max_font |-> 2]}

CurvePowers == {Rat(1, 2), Rat(3, 4), Rat(2, 1)}

BreakLists ==
    { DEFAULT_WEIGHT_BREAKS,
      << [threshold |-> Rat(1, 2), weight |-> "700"] >>,
      <<>> }

InitNormalize ==
    /\ hashSeed = 0
    /\ \/ \E it \in NormItems, mx \in {-1, 1, 2, 420}, f \in FontPairs,
            p \in CurvePowers, b \in BreakLists :
            nIn = [op |-> "normalize_items", items |-> it, max_items |-> mx,
                   min_font |-> f.min_font, max_font |-> f.max_font,
                   curve_power |-> p, weight_breaks |-> b]
       \/ \E total \in 1..MaxTotal, b \in BreakLists :
            \E rank \in 0..(total - 1) :
               nIn = [op |-> "weight_for", rank |-> rank, total |-> total,
                      weight_breaks |-> b]
    /\ nOut = NoOutput
    /\ WeightsIdle
    /\ TextIdle
    /\ AppIdle

NormalizeItems ==
    /\ nIn.op = "normalize_items"
    /\ ~nOut.done
    /\ nOut' = [done |-> TRUE,
                value |-> normalize_items(nIn.items, nIn.max_items, nIn.min_font,
                             nIn.max_font, nIn.curve_power, nIn.weight_breaks)]
    /\ UNCHANGED <<hashSeed, CACHE_ENABLED, wIn, wOut, nIn, tIn, tOut, appVars, concVars, aliasVars>>

WeightFor ==
    /\ nIn.op = "weight_for"
    /\ ~nOut.done
    /\ nOut' = [done |-> TRUE,
                value |-> weight_for(nIn.rank, nIn.total, nIn.weight_breaks)]
    /\ UNCHANGED <<hashSeed, CACHE_ENABLED, wIn, wOut, nIn, tIn, tOut, appVars, concVars, aliasVars>>

NextNormalize == NormalizeItems \/ WeightFor

SpecNormalize == InitNormalize /\ [][NextNormalize]_vars

-----------------------------------------------------------------------------
(* The JSON adapter on enumerated documents                                 *)

MaxDepth == 2      \* deepest nesting of the enumerated JSON documents

MaxEntries == 2    \* most entries of one mapping or list of a document

JsonKeys == {"Title", "body"}

JsonStrings == {<<"grace">>, <<"mercy">>}

SeqsUpTo(S, n) == UNION {[1..m -> S] : m \in 0..n}

\* the JSON values nested at most depth deep: strings, lists and mappings
\* (a JSON object read by json.load has no key twice)
RECURSIVE JsonValues(_)
JsonValues(depth) ==
    IF depth = 0 THEN {JStr(s) : s \in JsonStrings}
    ELSE LET sub == JsonValues(depth - 1)
         IN sub
            \cup {JList(vs) : vs \in SeqsUpTo(sub, MaxEntries)}
            \cup {JMap(es) : es \in {e \in SeqsUpTo([k : JsonKeys, v : sub], MaxEntries) :
                                        \A i, j \in 1..Len(e) : i /= j => e[i].k /= e[j].k}}

\* documents nested deeper than MaxDepth: a list of mappings, and a mapping,
\* below a key
DeepValues ==
    { JMap(<< [k |-> "Title", v |-> JList(<< JMap(<< [k |-> "meta", v |-> JStr(<<"grace">>)] >>),
                                              JStr(<<"mercy">>) >>)] >>),
      JMap(<< [k |-> "meta", v |-> JMap(<< [k |-> "meta", v |-> JList(<< JStr(<<"grace">>) >>)],
                                           [k |-> "BODY", v |-> JMap(<< [k |-> "meta", v |-> JStr(<<"mercy">>)] >>)] >>)] >>) }

\* json_text_keys as a caller can configure them; {} stands for None
KeySets == {{}, {" "}, {"Title"}, {"body"}, {"Title", "body"}, {"author"}}

\* a post record of the legacy export
LegacyPosts ==
    { JMap(<<>>),
      JMap(<< [k |-> "plaintext", v |-> JStr(<<"grace">>)] >>),
      JMap(<< [k |-> "plaintext", v |-> JStr(<<"mercy", "John", "3:16">>)] >>),
      JMap(<< [k |-> "slug", v |-> JStr(<<"grace">>)] >>) }

\* payloads around the legacy path db[0].data.posts[], the structure cut
\* off at every level
LegacyValues ==
    LET posts == {JList(ps) : ps \in SeqsUpTo(LegacyPosts, MaxEntries)}
        datas == {JMap(<<>>)} \cup {JMap(<< [k |-> "posts", v |-> p] >>) : p \in posts}
        firsts == {JMap(<<>>)} \cup {JMap(<< [k |-> "data", v |-> d] >>) : d \in datas}
        dbs == {JList(<<>>)} \cup {JList(<<f>>) : f \in firsts}
    IN {JMap(<<>>)} \cup {JMap(<< [k |-> "db", v |-> d] >>) : d \in dbs}

\* legacy payloads that also carry a "Title": an empty string, a string,
\* a list of empty strings
TitledValues ==
    {JMap(<< [k |-> "Title", v |-> t] >> \o legacy.items) :
        t \in {JStr(<<>>), JStr(<<"mercy">>), JList(<<JStr(<<>>), JStr(<<>>)>>)},
        legacy \in LegacyValues}

MaxChars == 4      \* longest text handed to tokenize_text

StopSets == {{}, {<<"a">>, <<"a", "b">>}}

KeepSets == {{}, {<<"b">>}}

MaxWords == 4      \* longest enumerated text of the reference detector

RefWords == {"See", "John", "john", "3:16", "and", "1", "Corinthians", "13:4-7."}

ExampleText == <<"See", "John", "3:16", "and", "1", "Corinthians", "13:4-7.">>

RefTexts ==
    SeqsUpTo(RefWords, MaxWords)
    \cup {ExampleText, <<"Song", "of", "Songs", "3:16,", "JOHN", "3:17">>}

InitText ==
    /\ hashSeed = 0
    /\ \/ \E text \in RefTexts, detect \in BOOLEAN :
            tIn = [op |-> "extract_tokens_and_references", text |-> text,
                   config |-> [build_config(BasePayload) EXCEPT !.detect_references = detect]]
       \/ \E body \in SeqsUpTo(Alphabet, MaxChars), stop \in StopSets,
            keep \in KeepSets, n \in 1..3 :
            tIn = [op |-> "tokenize_text", body |-> body, stopwords |-> stop,
                   keep_short |-> keep, min_length |-> n]
       \/ \E v \in JsonValues(MaxDepth) \cup DeepValues, ks \in KeySets, all \in BOOLEAN :
            tIn = [op |-> "iter_json_strings", payload |-> v,
                   config |-> [json_text_keys |-> ks, collect_all_json_strings |-> all]]
       \/ \E v \in LegacyValues \cup TitledValues, ks \in KeySets, all \in BOOLEAN :
            tIn = [op |-> "extract_text_from_json_payload", payload |-> v,
                   config |-> [json_text_keys |-> ks, collect_all_json_strings |-> all]]
    /\ tOut = NoOutput
    /\ WeightsIdle
    /\ NormalizeIdle
    /\ AppIdle

\* the walk that extract_text_from_json_payload starts
IterJsonStrings ==
    /\ tIn.op = "iter_json_strings"
    /\ ~tOut.done
    /\ tOut' = [done |-> TRUE,
                value |-> iter_json_strings(tIn.payload, resolved_json_keys(tIn.config),
                             tIn.config.collect_all_json_strings, FALSE)]
    /\ UNCHANGED <<hashSeed, CACHE_ENABLED, wIn, wOut, nIn, nOut, tIn, appVars, concVars, aliasVars>>

ExtractTextFromJsonPayload ==
    /\ tIn.op = "extract_text_from_json_payload"
    /\ ~tOut.done
    /\ tOut' = [done |-> TRUE,
                value |-> extract_text_from_json_payload(tIn.payload, tIn.config)]
    /\ UNCHANGED <<hashSeed, CACHE_ENABLED, wIn, wOut, nIn, nOut, tIn, appVars, concVars, aliasVars>>

TokenizeText ==
    /\ tIn.op = "tokenize_text"
    /\ ~tOut.done
    /\ tOut' = [done |-> TRUE,
                value |-> tokenize_text(tIn.body, tIn.stopwords, tIn.keep_short,
                                        tIn.min_length)]
    /\ UNCHANGED <<hashSeed, CACHE_ENABLED, wIn, wOut, nIn, nOut, tIn, appVars, concVars, aliasVars>>

ExtractTokensAndReferences ==
    /\ tIn.op = "extract_tokens_and_references"
    /\ ~tOut.done
    /\ tOut' = [done |-> TRUE,
                value |-> extract_tokens_and_references(tIn.text, tIn.config)]
    /\ UNCHANGED <<hashSeed, CACHE_ENABLED, wIn, wOut, nIn, nOut, tIn, appVars, concVars, aliasVars>>

NextText ==
    \/ TokenizeText
    \/ ExtractTokensAndReferences
    \/ IterJsonStrings
    \/ ExtractTextFromJsonPayload

SpecText == InitText /\ [][NextText]_vars

-----------------------------------------------------------------------------
(* Sequential requests to /api/generate, with the files rewritten between   *)

\* the fingerprint of BasePayload, every other option changed
OtherWeights ==
    [BasePayload EXCEPT !.stopwordGroups = {"base", "none"},
                        !.extraStopwords = {"really"},
                        !.removeStopwords = {"Amen"},
                        !.boosts = [k \in {"john"} |-> Rat(3, 2)],
                        !.referenceWeight = 1,
                        !.manualAdjustments = [k \in {"John 3:16"} |-> Rat(-1, 2)],
                        !.maxItems = 1, !.maxFont = 5, !.minFont = 3,
                        !.curvePower = Rat(2, 1)]

Requests ==
    { BasePayload,
      [BasePayload EXCEPT !.fileType = "Text"],
      [BasePayload EXCEPT !.jsonPath = "b.txt"],
      [BasePayload EXCEPT !.jsonPath = "b.txt", !.fileType = "json"],
      [BasePayload EXCEPT !.jsonPath = "missing.json"],
      [BasePayload EXCEPT !.jsonPath = "../secret.txt"],
      [BasePayload EXCEPT !.jsonPath = "../nothing.txt"],
      [BasePayload EXCEPT !.jsonPath = ""],
      [BasePayload EXCEPT !.skipCache = TRUE],
      [BasePayload EXCEPT !.extraStopwords = {"John"}],
      [BasePayload EXCEPT !.keepShort = {"ox"}],
      [BasePayload EXCEPT !.detectReferences = FALSE],
      [BasePayload EXCEPT !.jsonKeys = {"Title"}],
      [BasePayload EXCEPT !.collectAllJsonStrings = TRUE],
      OtherWeights }

EntrySources(cache) == {cache[i].entry.src : i \in 1..Len(cache)}

\* history: extraction runs per fingerprint by requests that use the cache,
\* counted from the moment no entry of that fingerprint is cached
RunsAfter(response, before, cache) ==
    LET counted == /\ response.status = "200"
                   /\ response.use_cache
                   /\ response.key /= NoKey
                   /\ response.extracted
        evicted == EntrySources(before) \ EntrySources(cache)
        known == (DOMAIN runs \cup (IF counted THEN {response.src} ELSE {})) \ evicted
    IN [s \in known |->
          IF counted /\ s = response.src
          THEN Min(MaxRuns, (IF s \in DOMAIN runs THEN runs[s] ELSE 0) + 1)
          ELSE runs[s]]

RECURSIVE DropOldest(_)
DropOldest(keys) ==
    IF Len(keys) > CACHE_CAPACITY THEN DropOldest(Tail(keys)) ELSE keys

\* history: the keys a least-recently-used cache of CACHE_CAPACITY entries
\* holds, oldest use first, a hit and a store both counting as a use
RecencyAfter(response) ==
    IF response.status = "200" /\ response.use_cache /\ response.key /= NoKey
    THEN DropOldest(Append(SelectSeq(recency, LAMBDA k : k /= response.key),
                           response.key))
    ELSE recency

\* no request below adjusts two words that are absent from the text, so the
\* iteration order of a set plays no part and one hash seed stands for all
Init ==
    /\ hashSeed = 0
    /\ CACHE_ENABLED \in BOOLEAN
    /\ WeightsIdle
    /\ NormalizeIdle
    /\ TextIdle
    /\ fs = [p \in Paths |-> 1]
    /\ TOKEN_CACHE = <<>>
    /\ last = NoRequest
    /\ runs = EmptyMap
    /\ recency = <<>>
    /\ thr = [t \in Threads |-> IdleThread]
    /\ badEvict = FALSE
    /\ AliasIdle

Generate ==
    \E payload \in Requests, statOk \in BOOLEAN :
        \E done \in {generate(TOKEN_CACHE, payload, statOk)} :
           /\ TOKEN_CACHE' = done.cache
           /\ last' = done.response
           /\ runs' = RunsAfter(done.response, TOKEN_CACHE, done.cache)
           /\ recency' = RecencyAfter(done.response)
           /\ UNCHANGED <<hashSeed, CACHE_ENABLED, pureVars, fs, concVars, aliasVars>>

\* the file is rewritten: new content, later modification time
WriteFile ==
    \E p \in Paths :
        /\ fs[p] < MaxMtime
        /\ fs' = [fs EXCEPT ![p] = @ + 1]
        /\ last' = NoRequest
        /\ UNCHANGED <<hashSeed, CACHE_ENABLED, pureVars, TOKEN_CACHE, runs,
                       recency, concVars, aliasVars>>

Next == Generate \/ WriteFile

Spec == Init /\ [][Next]_vars

-----------------------------------------------------------------------------
(* Concurrent requests: the server runs each request in a thread of its own *)
(* and the handler takes no lock, so the threads interleave between any two *)
(* operations on TOKEN_CACHE (each one atomic in the interpreter).          *)

ConcRequests ==
    { BasePayload,
      [BasePayload EXCEPT !.detectReferences = FALSE],
      [BasePayload EXCEPT !.jsonKeys = {"Title"}] }

ResolvedKind(payload) ==
    IF FileTypeOf(payload) /= "auto" THEN FileTypeOf(payload)
    ELSE IF HasJsonSuffix(payload.jsonPath) THEN "json" ELSE "text"

InitConc ==
    /\ hashSeed = 0
    /\ WeightsIdle
    /\ NormalizeIdle
    /\ TextIdle
    /\ AppIdle

\* one step of thread t: its record becomes next, the cache becomes cache
Step(t, next, cache) ==
    /\ thr' = [thr EXCEPT ![t] = next]
    /\ TOKEN_CACHE' = cache
    /\ UNCHANGED <<hashSeed, CACHE_ENABLED, pureVars, fs, last, runs, recency, aliasVars>>

\* generate up to get_cached_prepared's key = build_token_cache_key(...)
Begin(t) ==
    /\ thr[t].pc = "idle"
    /\ \E payload \in ConcRequests :
          Step(t, [pc |-> "get", at |-> None, payload |-> payload,
                   key |-> build_token_cache_key(payload.jsonPath,
                               ResolvedKind(payload), build_config(payload)),
                   prepared |-> NotPrepared],
               TOKEN_CACHE)
    /\ UNCHANGED badEvict

\* entry = TOKEN_CACHE.get(key); on None, prepared_entry = {}
CacheLookup(t) ==
    /\ thr[t].pc = "get"
    /\ IF CacheHas(TOKEN_CACHE, thr[t].key)
       THEN Step(t, [thr[t] EXCEPT !.pc = "refresh",
                                   !.prepared = CacheGet(TOKEN_CACHE, thr[t].key)],
                 TOKEN_CACHE)
       ELSE Step(t, [thr[t] EXCEPT !.pc = "pipeline",
                         !.prepared = [EmptyPrepared EXCEPT !.by = thr[t].payload]],
                 TOKEN_CACHE)
    /\ UNCHANGED badEvict

\* TOKEN_CACHE.move_to_end(key) of get_cached_prepared: KeyError when the key
\* is gone, which ends the request
Refresh(t) ==
    /\ thr[t].pc = "refresh"
    /\ IF CacheHas(TOKEN_CACHE, thr[t].key)
       THEN Step(t, [thr[t] EXCEPT !.pc = "pipeline"],
                 MoveToEnd(TOKEN_CACHE, thr[t].key))
       ELSE Step(t, [thr[t] EXCEPT !.pc = "failed", !.at = "refresh"], TOKEN_CACHE)
    /\ UNCHANGED badEvict

\* generate_words_and_stats_from_file, then store_cache_entry's guards
Pipeline(t) ==
    /\ thr[t].pc = "pipeline"
    /\ \E ran \in {generate_words_and_stats_from_file(thr[t].payload.jsonPath,
                      build_config(thr[t].payload), FileTypeOf(thr[t].payload),
                      thr[t].prepared)} :
          IF ~ran.ok
          THEN Step(t, [thr[t] EXCEPT !.pc = "failed", !.at = "pipeline"], TOKEN_CACHE)
          ELSE IF ~ran.prepared.filled
          THEN Step(t, [thr[t] EXCEPT !.pc = "done"], TOKEN_CACHE)
          ELSE Step(t, [thr[t] EXCEPT !.pc = "set", !.prepared = ran.prepared],
                    TOKEN_CACHE)
    /\ UNCHANGED badEvict

\* TOKEN_CACHE[cache_key] = entry
SetItem(t) ==
    /\ thr[t].pc = "set"
    /\ Step(t, [thr[t] EXCEPT !.pc = "move"],
            CacheSet(TOKEN_CACHE, thr[t].key, thr[t].prepared))
    /\ UNCHANGED badEvict

\* TOKEN_CACHE.move_to_end(cache_key) of store_cache_entry
Move(t) ==
    /\ thr[t].pc = "move"
    /\ IF CacheHas(TOKEN_CACHE, thr[t].key)
       THEN Step(t, [thr[t] EXCEPT !.pc = "len"], MoveToEnd(TOKEN_CACHE, thr[t].key))
       ELSE Step(t, [thr[t] EXCEPT !.pc = "failed", !.at = "move"], TOKEN_CACHE)
    /\ UNCHANGED badEvict

\* while len(TOKEN_CACHE) > CACHE_CAPACITY
CheckLen(t) ==
    /\ thr[t].pc = "len"
    /\ Step(t, [thr[t] EXCEPT !.pc = IF Len(TOKEN_CACHE) > CACHE_CAPACITY
                                     THEN "pop" ELSE "done"],
            TOKEN_CACHE)
    /\ UNCHANGED badEvict

\* TOKEN_CACHE.popitem(last=False); badEvict records an eviction from a cache
\* that was not over capacity
PopItem(t) ==
    /\ thr[t].pc = "pop"
    /\ IF TOKEN_CACHE = <<>>
       THEN /\ Step(t, [thr[t] EXCEPT !.pc = "failed", !.at = "pop"], TOKEN_CACHE)
            /\ UNCHANGED badEvict
       ELSE /\ Step(t, [thr[t] EXCEPT !.pc = "len"], Tail(TOKEN_CACHE))
            /\ badEvict' = (badEvict \/ Len(TOKEN_CACHE) <= CACHE_CAPACITY)

\* the response is sent (200, or 500 after an exception) and the thread is
\* free for the next request
Return(t) ==
    /\ thr[t].pc \in {"done", "failed"}
    /\ Step(t, IdleThread, TOKEN_CACHE)
    /\ UNCHANGED badEvict

NextConc ==
    \E t \in Threads :
        \/ Begin(t)
        \/ CacheLookup(t)
        \/ Refresh(t)
        \/ Pipeline(t)
        \/ SetItem(t)
        \/ Move(t)
        \/ CheckLen(t)
        \/ PopItem(t)
        \/ Return(t)

SpecConc == InitConc /\ [][NextConc]_vars

-----------------------------------------------------------------------------
(* List objects. A Python list is an object at an address; two names can    *)
(* hold the same list. Here TOKEN_CACHE keeps, as above, the elements each  *)
(* entry was stored with, owner the addresses of the entry's two lists and  *)
(* heap what every list holds now.                                          *)

\* the address of the next object: the lowest one not in use
NewId(h) ==
    CHOOSE i \in 1..(Cardinality(DOMAIN h) + 1) :
        i \notin DOMAIN h /\ \A j \in 1..(i - 1) : j \in DOMAIN h

\* list(elements): the heap with the new list, which is at NewId(h)
Alloc(h, elements) ==
    [i \in DOMAIN h \cup {NewId(h)} |-> IF i \in DOMAIN h THEN h[i] ELSE elements]

\* mutant of FromTokensObjects: "return ..., references" without list()
ReturnsItsArgument(h, tokens, references) == [heap |-> h, returned |-> references]

\* generate_words_and_stats_from_tokens on list objects: compute_word_weights
\* gets list(tokens) and list(references) and keeps neither; the references
\* returned are list(references)
FromTokensObjects(h, tokens, references) ==
    [heap |-> Alloc(h, h[references]), returned |-> NewId(h)]

\* a prepared dict by the addresses of its lists; given FALSE for None
NoLists == [given |-> FALSE, filled |-> FALSE, tokens |-> 0, references |-> 0]

\* generate_words_and_stats_from_file on list objects, tr being what
\* extract_tokens_and_references returns: [heap, returned, prepared]
FromFileObjects(h, prepared, tr) ==
    IF prepared.given /\ prepared.filled
    THEN FromTokensObjects(h, prepared.tokens, prepared.references)
         @@ [prepared |-> prepared]
    ELSE LET tokens == NewId(h)
             h1 == Alloc(h, tr.tokens)
             references == NewId(h1)
             h2 == Alloc(h1, tr.references)
             h3 == Alloc(h2, h2[tokens])
             h4 == Alloc(h3, h3[references])
         IN IF prepared.given
            THEN FromTokensObjects(h4, tokens, references)
                 @@ [prepared |-> [given |-> TRUE, filled |-> TRUE,
                                   tokens |-> NewId(h2), references |-> NewId(h3)]]
            ELSE [heap |-> Alloc(h2, h2[references]), returned |-> NewId(h2),
                  prepared |-> prepared]

AliasRequests == ConcRequests \cup {[BasePayload EXCEPT !.skipCache = TRUE]}

\* the lists an entry of the cache or the caller still holds
Reachable(own, returned) ==
    {own[k].tokens : k \in DOMAIN own} \cup {own[k].references : k \in DOMAIN own}
        \cup {returned}

\* the handler on list objects: got is what get_cached_prepared returned,
\* lists what generate_words_and_stats_from_file did, cache the cache after
\* store_cache_entry; unreachable lists are freed
ServeObjects(got, lists, cache) ==
    /\ TOKEN_CACHE' = cache
    /\ owner' = [k \in Range(CacheKeys(cache)) |->
                    IF k = got.key
                    THEN [tokens |-> lists.prepared.tokens,
                          references |-> lists.prepared.references]
                    ELSE owner[k]]
    /\ held' = lists.returned
    /\ heap' = [i \in Reachable(owner', held') |-> lists.heap[i]]

\* a request of generate, from build_config to store_cache_entry
AliasRequest ==
    \E payload \in AliasRequests :
        LET config == build_config(payload)
            use_cache == CACHE_ENABLED /\ ~payload.skipCache
            got == IF use_cache
                   THEN get_cached_prepared(TOKEN_CACHE, payload.jsonPath,
                                            ResolvedKind(payload), config, TRUE)
                   ELSE [key |-> NoKey, entry |-> NotPrepared, cache |-> TOKEN_CACHE]
            ran == generate_words_and_stats_from_file(payload.jsonPath, config,
                       FileTypeOf(payload),
                       IF ~use_cache THEN NotPrepared
                       ELSE IF ~got.entry.given THEN [EmptyPrepared EXCEPT !.by = payload]
                       ELSE got.entry)
            tr == extract_tokens_and_references(
                      LoadText(payload.jsonPath, ResolvedKind(payload), config).text,
                      config)
            lists == FromFileObjects(heap,
                       IF ~use_cache THEN NoLists
                       ELSE IF ~got.entry.given THEN [NoLists EXCEPT !.given = TRUE]
                       ELSE [given |-> TRUE, filled |-> TRUE,
                             tokens |-> owner[got.key].tokens,
                             references |-> owner[got.key].references],
                       tr)
        IN /\ ServeObjects(got, lists,
                           IF use_cache /\ ran.prepared.given
                           THEN store_cache_entry(got.cache, got.key, ran.prepared)
                           ELSE got.cache)
           /\ UNCHANGED <<hashSeed, CACHE_ENABLED, pureVars, fs, last, runs, recency,
                          concVars>>

\* the caller changes the list it got back: clear(), or other elements
CallerMutates ==
    /\ held /= 0
    /\ \E elements \in {<<>>, <<"amen">>} :
          /\ elements /= heap[held]
          /\ heap' = [heap EXCEPT ![held] = elements]
    /\ UNCHANGED <<hashSeed, CACHE_ENABLED, pureVars, appVars, concVars, owner, held>>

InitAlias ==
    /\ hashSeed = 0
    /\ WeightsIdle
    /\ NormalizeIdle
    /\ TextIdle
    /\ AppIdle

NextAlias == AliasRequest \/ CallerMutates

SpecAlias == InitAlias /\ [][NextAlias]_vars

-----------------------------------------------------------------------------
(* Claims about compute_word_weights, under SpecWeights                     *)

WeightsDone == wIn.op = "compute_word_weights" /\ wOut.done

\* the running count of a key before boosting, from its stat record
RunningCount(k) ==
    wOut.value.stats[k].base_count + wOut.value.stats[k].reference_bonus
        + wOut.value.stats[k].bigram_count

HasManual(k) ==
    k \in DOMAIN wIn.manual_adjustments \/ Lower(k) \in DOMAIN wIn.manual_adjustments

\* the final weight as the claim derives it: boost, then the adjustment whenever
\* one exists for the key
ClaimedFinal(k) ==
    LET m == IF Lower(k) \in DOMAIN wIn.boost_map
             THEN wIn.boost_map[Lower(k)] ELSE Rat(1, 1)
        c0 == RunningCount(k)
        c1 == IF m.n /= m.d THEN RoundHalfEven(c0 * m.n, m.d) ELSE c0
        d == IF k \in DOMAIN wIn.manual_adjustments
             THEN wIn.manual_adjustments[k]
             ELSE wIn.manual_adjustments[Lower(k)]
    IN IF HasManual(k) THEN Max(0, RoundHalfEven(c1 * d.d + d.n, d.d)) ELSE c1

\* C1: every key's final weight is round(c * m) when m /= 1.0, then
\* max(0, round(c + d)) when a manual adjustment d exists for the key (exact
\* key first, else the lowercased key); [grace, grace] with boost
\* {grace: 2.0} gives 4.
C1_FinalWeightOrder ==
    WeightsDone =>
        /\ \A k \in DOMAIN wOut.value.weights :
              /\ wOut.value.weights[k] = ClaimedFinal(k)
              /\ wOut.value.stats[k].final_count = ClaimedFinal(k)
        /\ ( /\ wIn.tokens = <<"grace", "grace">>
             /\ wIn.boost_map = [k \in {"grace"} |-> Rat(2, 1)]
             /\ wIn.manual_adjustments = EmptyMap )
           => wOut.value.stats["grace"].final_count = 4

\* C2: a key for which a manual adjustment is present (exact or lowercased
\* key) never ends with a negative final weight.
C2_ManualNeverNegative ==
    WeightsDone =>
        \A k \in DOMAIN wOut.value.weights :
            HasManual(k) =>
                /\ wOut.value.weights[k] >= 0
                /\ wOut.value.stats[k].final_count >= 0

-----------------------------------------------------------------------------
(* Claims about the token cache, under Spec and SpecConc                    *)

\* the latest request was answered with the cache in use and a key built
UsedCache == last.status = "200" /\ last.use_cache /\ last.key /= NoKey

\* C3: with the cache enabled and skipCache unset, of two requests for the
\* same file, fingerprint and modification time with no eviction between
\* them, the second is a hit: extraction, tokenization and reference
\* detection run once in total for the fingerprint, and the hit computes its
\* result from the stored (tokens, references) pair without extracting.
C3_SecondRequestHits ==
    /\ \A s \in DOMAIN runs : runs[s] <= 1
    /\ UsedCache /\ last.hit =>
          /\ ~last.extracted
          /\ last.result = generate_words_and_stats_from_tokens(
                               last.entry.tokens, last.entry.references,
                               build_config(last.payload))

\* C3 witness: a hit on an entry that an earlier request filled and that is
\* still cached, the fingerprint having been extracted once.
C3_Witness ==
    /\ UsedCache /\ last.hit /\ ~last.extracted
    /\ last.src \in DOMAIN runs /\ runs[last.src] = 1
    /\ last.entry.tokens /= <<>>

\* C4: an entry is never returned for a request whose resolved path, content
\* kind, modification time, stopword set, keep-short set, minimum token
\* length, collect-all flag, JSON key set or reference-detection flag differs
\* from what the entry was computed from; such a request misses and extracts.
C4_NoStaleEntry ==
    /\ last.hit => last.entry.src = last.src
    /\ UsedCache /\ ~last.hit => last.extracted

\* C4 witness: a request misses and runs the extraction while the cache
\* holds the entry of the same file and options at the earlier
\* modification time.
C4_Witness ==
    /\ UsedCache /\ ~last.hit /\ last.extracted
    /\ \E i \in 1..Len(TOKEN_CACHE) :
          /\ TOKEN_CACHE[i].entry.src.mtime < last.src.mtime
          /\ [TOKEN_CACHE[i].entry.src EXCEPT !.mtime = last.src.mtime] = last.src

\* C5: after any sequence of sequential requests the cache holds at most
\* CACHE_CAPACITY entries, and they are the most recently used keys in order
\* of use (a store and a hit both count as a use), so what a store evicts is
\* least recently used and the key just stored or hit is the last one.
C5_LruBound ==
    /\ Len(TOKEN_CACHE) <= CACHE_CAPACITY
    /\ CacheKeys(TOKEN_CACHE) = recency
    /\ UsedCache => /\ TOKEN_CACHE /= <<>>
                    /\ TOKEN_CACHE[Len(TOKEN_CACHE)].key = last.key

\* C5 witness: a store pushed the cache over capacity and an entry was
\* evicted, leaving a full cache whose last key is the one just stored.
C5_Witness ==
    /\ UsedCache /\ ~last.hit /\ last.evicted > 0
    /\ Len(TOKEN_CACHE) = CACHE_CAPACITY
    /\ TOKEN_CACHE[Len(TOKEN_CACHE)].key = last.key

\* C6: when requests run concurrently, every interleaving of their lookup
\* and store steps behaves like a serial order of atomic operations: no
\* request fails because an entry was evicted by another request before its
\* move_to_end, and no entry is evicted while the cache holds no more than
\* CACHE_CAPACITY entries.
C6_InterleavingsSerial ==
    /\ \A t \in Threads : thr[t].pc /= "failed"
    /\ ~badEvict

\* C7: on a hit, the words, stats, weights and references returned equal
\* those of a run of the full pipeline on the same file with the same
\* configuration, whatever the non-fingerprinted options of the request.
C7_HitEqualsBypass ==
    UsedCache /\ last.hit => last.result = last.full

\* C7 witness: a hit by a request whose boosts, referenceWeight,
\* manualAdjustments, maxItems, fonts and curvePower all differ from those
\* of the request that filled the entry.
C7_Witness ==
    /\ UsedCache /\ last.hit
    /\ last.payload = OtherWeights
    /\ last.entry.by = BasePayload
    /\ last.result.words /= <<>>

-----------------------------------------------------------------------------
(* Claims about normalize_items and weight_for, under SpecNormalize         *)

NormalizeDone == nIn.op = "normalize_items" /\ nOut.done

WeightForDone == nIn.op = "weight_for" /\ nOut.done

\* C8: given curve_power > 0 and min_font <= max_font, the sizes of the
\* returned list never increase with rank.
C8_SizeNonIncreasing ==
    ( /\ NormalizeDone
      /\ nIn.curve_power.n > 0
      /\ nIn.min_font <= nIn.max_font )
    => \A i, j \in 1..Len(nOut.value) :
          i < j => nOut.value[i].size >= nOut.value[j].size

C8_Witness ==
    /\ NormalizeDone
    /\ nIn.min_font <= nIn.max_font
    /\ Len(nOut.value) = 3
    /\ nOut.value[1].size > nOut.value[2].size
    /\ nOut.value[2].size > nOut.value[3].size
    /\ nOut.value[2].size < 0

\* the label the claim gives rank i of N items: "600" when N <= 1, else the
\* label of the smallest threshold strictly above i / max(N - 1, 1), else "500"
ClaimedLabel(rank, total, breaks) ==
    LET D == Max(total - 1, 1)
        above == {j \in 1..Len(breaks) :
                     breaks[j].threshold.n * D > rank * breaks[j].threshold.d}
        first == CHOOSE j \in above : \A j2 \in above :
                     breaks[j].threshold.n * breaks[j2].threshold.d
                         <= breaks[j2].threshold.n * breaks[j].threshold.d
    IN IF total <= 1 THEN "600"
       ELSE IF above = {} THEN "500"
       ELSE breaks[first].weight

\* the default table, written out: f < 0.04, < 0.12, < 0.30, < 0.60, else
DefaultLabel(rank, total) ==
    LET D == Max(total - 1, 1)
    IN IF total <= 1 THEN "600"
       ELSE IF 100 * rank < 4 * D THEN "900"
       ELSE IF 100 * rank < 12 * D THEN "800"
       ELSE IF 100 * rank < 30 * D THEN "700"
       ELSE IF 100 * rank < 60 * D THEN "600"
       ELSE "500"

\* C9: the font-weight label of rank i among N items is "600" when N <= 1,
\* otherwise the label of the first threshold, from the smallest up, that is
\* strictly greater than i / max(N - 1, 1), and "500" when there is none.
C9_WeightLabel ==
    /\ WeightForDone =>
          /\ nOut.value = ClaimedLabel(nIn.rank, nIn.total, nIn.weight_breaks)
          /\ nIn.weight_breaks = DEFAULT_WEIGHT_BREAKS
                => nOut.value = DefaultLabel(nIn.rank, nIn.total)
    /\ NormalizeDone =>
          \A i \in 1..Len(nOut.value) :
             nOut.value[i].weight =
                ClaimedLabel(i - 1, Len(nOut.value), nIn.weight_breaks)

C9_Witness ==
    /\ WeightForDone
    /\ nIn.weight_breaks = DEFAULT_WEIGHT_BREAKS
    /\ nIn.total = 26
    /\ nIn.rank = 3
    /\ nOut.value = "700"

\* position of a key in the iteration order of the weight mapping
PosIn(order, k) == CHOOSE i \in 1..Len(order) : order[i] = k

RenderableKeys(items) ==
    {k \in Range(items.order) : is_scripture_ref(k) \/ IsAlphaPhrase(k)}

\* the returned texts are filtered keys, by weight descending, ties in the
\* order of the mapping, and nothing left out outweighs anything returned
RankedSelection ==
    LET texts == [i \in 1..Len(nOut.value) |-> nOut.value[i].text]
        w == nIn.items.weights
        keep == RenderableKeys(nIn.items)
    IN /\ Range(texts) \subseteq keep
       /\ \A i, j \in 1..Len(texts) :
             i < j =>
                \/ w[texts[i]] > w[texts[j]]
                \/ /\ w[texts[i]] = w[texts[j]]
                   /\ PosIn(nIn.items.order, texts[i]) < PosIn(nIn.items.order, texts[j])
       /\ \A k \in keep \ Range(texts) : \A t \in Range(texts) : w[k] <= w[t]

\* C10 as stated: at most max_items entries, the filtered keys by weight
\* descending with ties in mapping order, none left out outweighing one kept.
C10_AtMostMaxItems ==
    NormalizeDone =>
        /\ Len(nOut.value) <= nIn.max_items
        /\ RankedSelection

\* C10 as amended: the same, for max_items >= 0 (the list then holds
\* min(max_items, number of filtered keys) entries).
C10_AtMostMaxItemsNonNegative ==
    (NormalizeDone /\ nIn.max_items >= 0) =>
        /\ Len(nOut.value) <= nIn.max_items
        /\ Len(nOut.value) =
              Min(nIn.max_items, Cardinality(RenderableKeys(nIn.items)))
        /\ RankedSelection

C10_Witness ==
    /\ NormalizeDone
    /\ nIn.max_items = 2
    /\ Cardinality(RenderableKeys(nIn.items)) = 3
    /\ Len(nOut.value) = 2
    /\ nIn.items.weights[nOut.value[1].text] = nIn.items.weights[nOut.value[2].text]
    /\ "god's" \notin Range(nIn.items.order)

-----------------------------------------------------------------------------
(* Claims about the filter of normalize_items, under SpecNormalize          *)

\* the whole key is a reference: the words of one book name, then a chapter
\* with an optional verse or verse range, and nothing before or after
IsWholeReference(key) ==
    LET w == KeyWords(key)
    IN \E b \in 1..Len(BOOK_NAMES) :
          /\ Len(w) = Len(BOOK_NAMES[b]) + 1
          /\ BookMatchesAt(w, 1, b)
          /\ ChapterVerseOf(w[Len(w)]) = w[Len(w)]

\* C11: every text of the list normalize_items returns is, as a whole
\* string, a scripture reference or purely alphabetic words separated by
\* single spaces; a key that only contains a reference is filtered out.
C11_WholeStringFilter ==
    NormalizeDone
    => \A i \in 1..Len(nOut.value) :
          IsWholeReference(nOut.value[i].text) \/ IsAlphaPhrase(nOut.value[i].text)

-----------------------------------------------------------------------------
(* Claims about the JSON adapter, under SpecText                            *)

WalkDone == tIn.op = "iter_json_strings" /\ tOut.done

ExtractDone == tIn.op = "extract_text_from_json_payload" /\ tOut.done

\* the string leaves of a value in document order, each with the mapping
\* keys on the path from the root to it
RECURSIVE LeavesUnder(_, _)
LeavesUnder(value, path) ==
    IF value.t = "str" THEN << [s |-> value.s, path |-> path] >>
    ELSE FlattenSeqs([i \in 1..Len(value.items) |->
            LeavesUnder(value.items[i].v,
                        IF value.t = "map" THEN path \cup {value.items[i].k} ELSE path)])

\* the leaves the claim collects: all of them with the collect-all flag or
\* without a key restriction, else those below a key that is a text key
ClaimedStrings(value, keys, collect_all) ==
    LET Collected(leaf) ==
            \/ collect_all
            \/ keys = {}
            \/ \E k \in leaf.path, c \in keys : Lower(k) = Lower(c)
        kept == SelectSeq(LeavesUnder(value, {}), Collected)
    IN [i \in 1..Len(kept) |-> kept[i].s]

\* C12: the walker collects a string leaf exactly when the collect-all flag
\* is set, or no key restriction is configured, or a mapping key on the path
\* to it equals a configured text key without regard to case; what is
\* below a matching key is collected whatever the keys below it are.
C12_WalkerCollects ==
    WalkDone
    => tOut.value = ClaimedStrings(tIn.payload, resolved_json_keys(tIn.config),
                                   tIn.config.collect_all_json_strings)

\* C12 witness: with the keys restricted to "body", a string under
\* BODY -> meta is collected and a string under meta -> meta is not.
C12_Witness ==
    /\ WalkDone
    /\ ~tIn.config.collect_all_json_strings
    /\ tIn.config.json_text_keys = {"body"}
    /\ tOut.value = << <<"mercy">> >>
    /\ \E i \in 1..Len(LeavesUnder(tIn.payload, {})) :
          LET leaf == LeavesUnder(tIn.payload, {})[i]
          IN leaf.path = {"meta", "BODY"} /\ leaf.s = <<"mercy">>

\* the legacy fallback of extract_text_from_json_payload is taken
FallbackTaken ==
    /\ ExtractDone
    /\ ~tIn.config.collect_all_json_strings
    /\ "plaintext" \notin resolved_json_keys(tIn.config)
    /\ ClaimedStrings(tIn.payload, resolved_json_keys(tIn.config), FALSE) = <<>>

\* the values under a name of a mapping, none when the name or the mapping
\* is missing
Under(values, name) ==
    FlattenSeqs([i \in 1..Len(values) |->
        IF values[i].t /= "map" THEN <<>>
        ELSE LET hits == SelectSeq(values[i].items, LAMBDA e : e.k = name)
             IN [j \in 1..Len(hits) |-> hits[j].v]])

\* the elements of lists, the first element only when firstOnly
ElementsOf(values, firstOnly) ==
    FlattenSeqs([i \in 1..Len(values) |->
        IF values[i].t /= "list" THEN <<>>
        ELSE LET all == [j \in 1..Len(values[i].items) |-> values[i].items[j].v]
             IN IF firstOnly /\ all /= <<>> THEN <<all[1]>> ELSE all])

\* the text the claim gives the fallback: the plaintext of each post at
\* db[0].data.posts, every level a list of zero or more
ClaimedLegacyText(payload) ==
    LET posts == ElementsOf(Under(Under(ElementsOf(Under(<<payload>>, "db"), TRUE),
                                        "data"), "posts"), FALSE)
        texts == Under(posts, "plaintext")
    IN FlattenSeqs([i \in 1..Len(texts) |-> texts[i].s])

\* C13: when the legacy fallback is taken, a payload whose legacy structure
\* is missing or empty at any level (no "db", "db" an empty list, no "data",
\* no "posts", posts without "plaintext") yields empty text and no error;
\* with the structure present the text is the plaintext of each post.
C13_LegacyFallbackTolerant ==
    FallbackTaken
    => tOut.value.ok /\ tOut.value.text = ClaimedLegacyText(tIn.payload)

-----------------------------------------------------------------------------
(* Claims about the tokenizer and the reference detector, under SpecText    *)

TokenizeDone == tIn.op = "tokenize_text" /\ tOut.done

\* the elements of a set of integers in ascending order
RECURSIVE Ascending(_)
Ascending(S) ==
    IF S = {} THEN <<>>
    ELSE LET m == CHOOSE x \in S : \A y \in S : x <= y
         IN <<m>> \o Ascending(S \ {m})

\* the candidate pieces of a cleaned text, as intervals <<a, b>> of
\* positions: maximal stretches without whitespace and without a letter
\* next to a digit
ClaimedPieces(text) ==
    LET n == Len(text)
        Split(i) == \* a piece ends between positions i and i + 1
            \/ i = 0 \/ i = n
            \/ text[i] = " " \/ text[i + 1] = " "
            \/ text[i] \in Letters /\ text[i + 1] \in Digits
            \/ text[i] \in Digits /\ text[i + 1] \in Letters
    IN {iv \in (1..n) \X (1..n) :
          /\ iv[1] <= iv[2]
          /\ \A i \in iv[1]..iv[2] : text[i] /= " "
          /\ \A i \in iv[1]..(iv[2] - 1) : ~Split(i)
          /\ Split(iv[1] - 1) /\ Split(iv[2])}

\* a piece without its leading and trailing hyphens and apostrophes
ClaimedStripped(text, iv) ==
    LET inner == {i \in iv[1]..iv[2] : text[i] \notin {"-", "'"}}
    IN IF inner = {} THEN <<>>
       ELSE SubSeq(text, CHOOSE i \in inner : \A j \in inner : i <= j,
                         CHOOSE i \in inner : \A j \in inner : j <= i)

\* letters, optionally followed by one apostrophe and more letters
ClaimedWord(token) ==
    /\ token /= <<>>
    /\ \A i \in 1..Len(token) : token[i] \in Letters \cup {"'"}
    /\ Cardinality({i \in 1..Len(token) : token[i] = "'"}) <= 1
    /\ token[1] \in Letters

ClaimedTokens(body, stop, keep, min_length) ==
    LET text == [i \in 1..Len(body) |-> CleanChar(LowerChar(body[i]))]
        pieces == ClaimedPieces(text)
        kept == {iv \in pieces :
                    LET token == ClaimedStripped(text, iv)
                    IN /\ ClaimedWord(token)
                       /\ token \notin stop
                       /\ (Len(token) >= min_length \/ token \in keep)}
        starts == Ascending({iv[1] : iv \in kept})
    IN [k \in 1..Len(starts) |->
           ClaimedStripped(text, CHOOSE iv \in kept : iv[1] = starts[k])]

\* C14: tokenize_text returns, in source order and with duplicates, exactly
\* the candidate pieces (whitespace chunks split where a letter meets a
\* digit, stripped of hyphens and apostrophes at their ends) that are not
\* empty, not stopwords, made of letters with at most one apostrophe
\* between them, and long enough or on the allowlist; a piece of digits is
\* always discarded.
C14_TokenizerKeeps ==
    TokenizeDone
    => /\ tOut.value = ClaimedTokens(tIn.body, tIn.stopwords, tIn.keep_short,
                                     tIn.min_length)
       /\ \A i \in 1..Len(tOut.value) : \A j \in 1..Len(tOut.value[i]) :
             tOut.value[i][j] \notin Digits

\* C14 witness: letters, a digit, letters ("love123joy" in small) give the
\* two words and drop the digit; the second word stays by the allowlist.
C14_Witness ==
    /\ TokenizeDone
    /\ tIn.body = <<"a", "B", "1", "b">>
    /\ tIn.min_length = 2
    /\ tIn.keep_short = {<<"b">>}
    /\ tOut.value = << <<"a", "b">>, <<"b">> >>

ReferencesDone == tIn.op = "extract_tokens_and_references" /\ tOut.done

\* the book name of a whole-word match of <book> <chapter>[:<verse>] that
\* starts at word i (0 when there is none), and the word after the match
ClaimedEnd(body, i) == i + Len(BOOK_NAMES[BookAt(body, i)])

\* a match starts at word i: the pattern matches there and no match that
\* started further left reaches word i
RECURSIVE ClaimedStart(_, _)
ClaimedStart(body, i) ==
    /\ i < Len(body)
    /\ BookAt(body, i) /= 0
    /\ \A j \in 1..(i - 1) : ClaimedStart(body, j) => ClaimedEnd(body, j) < i

\* one entry per match in order of occurrence: the words of the book name,
\* the alphabetic ones capitalized, a space, the chapter and verse
ClaimedReferences(body) ==
    LET starts == Ascending({i \in 1..Len(body) : ClaimedStart(body, i)})
    IN [k \in 1..Len(starts) |->
          LET i == starts[k]
              e == ClaimedEnd(body, i)
          IN Phrase(JoinWords([j \in 1..(e - i) |->
                                 IF IsAlpha(body[i + j - 1])
                                 THEN Capitalize(body[i + j - 1])
                                 ELSE body[i + j - 1]]),
                    ChapterVerseOf(body[e]))]

\* C15: with detection enabled the reference list holds one normalized
\* entry per whole-word, case-insensitive match of <book> <chapter>[:<verse>
\* [-<verse>]], in order of occurrence, duplicates kept; the book's
\* alphabetic words are capitalized, numeric prefixes and the suffix kept;
\* "See John 3:16 and 1 Corinthians 13:4-7." gives ["John 3:16",
\* "1 Corinthians 13:4-7"]; the matched text stays in the tokenizer's input.
C15_ReferencesInOrder ==
    ReferencesDone
    => /\ tIn.config.detect_references
          => /\ tOut.value.references = ClaimedReferences(tIn.text)
             /\ tIn.text = ExampleText
                => tOut.value.references = <<"John 3:16", "1 Corinthians 13:4-7">>
       /\ tOut.value.tokens =
             TokenizeWords(tIn.text, stopwords(tIn.config), keep_short(tIn.config),
                           tIn.config.min_token_length)

\* C15 witness: the example of the claim, its two references found and the
\* book names still among the tokens.
C15_Witness ==
    /\ ReferencesDone
    /\ tIn.config.detect_references
    /\ tIn.text = ExampleText
    /\ tOut.value.references = <<"John 3:16", "1 Corinthians 13:4-7">>
    /\ tOut.value.tokens = <<"see", "john", "corinthians">>

-----------------------------------------------------------------------------
(* C16: paths outside the root and missing files                            *)

\* the step is a request for path_str
RequestFor(path_str) == last' /= NoRequest /\ last'.payload.jsonPath = path_str

\* the request ends with this status and no cache lookup, file read or
\* cache store has taken place
RejectedWith(status) ==
    /\ last'.status = status
    /\ ~last'.hit /\ last'.key = NoKey /\ last'.entry = NotPrepared
    /\ ~last'.extracted /\ last'.result = NoResult
    /\ TOKEN_CACHE' = TOKEN_CACHE /\ recency' = recency /\ runs' = runs

\* C16: a request whose path resolves outside the root directory is
\* answered 400 whether or not the file exists, one whose path is inside
\* the root and does not exist is answered 404; neither looks up, reads
\* or stores anything.
C16_OutsideRootRejected ==
    [][/\ \A path_str \in {"../secret.txt", "../nothing.txt"} :
             RequestFor(path_str) => ~InsideBase(path_str) /\ RejectedWith("400")
       /\ RequestFor("missing.json")
             => /\ InsideBase("missing.json") /\ ~Exists("missing.json")
                /\ RejectedWith("404")]_vars

\* C16 witness: a path outside the root that names no file has been
\* answered 400 while the cache holds entries.
C16_Witness ==
    /\ last.status = "400"
    /\ last.payload.jsonPath = "../nothing.txt"
    /\ ~Exists("../nothing.txt")
    /\ Len(TOKEN_CACHE) = CACHE_CAPACITY

-----------------------------------------------------------------------------
(* C17: a failing stat() degrades to the miss path                          *)

\* the step is a request that uses the cache on a file that resolves and
\* whose stat() raises OSError in build_token_cache_key
StatFailed ==
    /\ last' /= NoRequest
    /\ resolve_input_path(last'.payload.jsonPath) = "ok"
    /\ CACHE_ENABLED /\ ~last'.payload.skipCache
    /\ ~last'.statOk

\* what the pipeline returns for the request without any cache
BypassOf(payload) ==
    generate_words_and_stats_from_file(payload.jsonPath, build_config(payload),
                                       FileTypeOf(payload), NotPrepared)

\* C17: when path.stat() fails while the cache key is built, the request
\* has no key and no entry, runs extraction and tokenization in full,
\* answers what a run without the cache answers, and leaves the cache as
\* it was.
C17_StatFailureIsMiss ==
    [][StatFailed
       => /\ last'.key = NoKey /\ ~last'.hit
          /\ TOKEN_CACHE' = TOKEN_CACHE /\ recency' = recency
          /\ \E bypass \in {BypassOf(last'.payload)} :
                IF bypass.ok
                THEN /\ last'.status = "200" /\ last'.extracted
                     /\ last'.result = bypass.result
                ELSE last'.status = "500"]_vars

\* C17 witness: a request on a.json whose stat() failed has been answered
\* 200 with words, after a full run, while the cache holds another entry
\* and none for this request's fingerprint.
C17_Witness ==
    /\ last.status = "200" /\ last.use_cache /\ ~last.statOk
    /\ last.payload.jsonPath = "a.json"
    /\ last.key = NoKey /\ last.extracted
    /\ last.result.words /= <<>>
    /\ TOKEN_CACHE /= <<>>
    /\ last.src \notin EntrySources(TOKEN_CACHE)

-----------------------------------------------------------------------------
(* C18..C20: compute_word_weights as a function of its arguments            *)

\* the latest call is a later call with the arguments of the first one
CalledAgain == WeightsDone /\ wOut.calls > 1 /\ wIn = wOut.first.args

Occurrences(seq, k) == {i \in 1..Len(seq) : seq[i] = k}

\* the adjacent token pairs "left right" equal to k, k being a boost key
PairsAt(tokens, boost_map, k) ==
    {i \in 1..(Len(tokens) - 1) :
        k \in DOMAIN boost_map /\ Phrase(tokens[i], tokens[i + 1]) = k}

\* the running count before boosting, recovered from the final weight of a
\* key that has neither a boost nor an adjustment
Unweighted(k) ==
    /\ Lower(k) \notin DOMAIN wIn.boost_map
    /\ ~HasManual(k)

\* C19: the stat's base_count is the key's frequency among the tokens, its
\* reference_bonus reference_weight times its occurrences among the
\* references, its bigram_count the number of adjacent token pairs equal to
\* the key that are boost keys (pairs of consecutive tokens only); the
\* running count is their sum.
C19_RunningCount ==
    WeightsDone =>
        \A k \in DOMAIN wOut.value.stats :
            /\ wOut.value.stats[k].base_count = Cardinality(Occurrences(wIn.tokens, k))
            /\ wOut.value.stats[k].reference_bonus
                  = wIn.reference_weight * Cardinality(Occurrences(wIn.references, k))
            /\ wOut.value.stats[k].bigram_count
                  = Cardinality(PairsAt(wIn.tokens, wIn.boost_map, k))
            /\ Unweighted(k)
                  => wOut.value.weights[k]
                        = Cardinality(Occurrences(wIn.tokens, k))
                          + wIn.reference_weight
                              * Cardinality(Occurrences(wIn.references, k))
                          + Cardinality(PairsAt(wIn.tokens, wIn.boost_map, k))

\* C19 witness: "grace grace" occurs twice as a pair of consecutive tokens
\* and is a boost key, and the references "grace", "mercy" follow a token
\* "grace" without forming "grace mercy".
C19_Witness ==
    /\ WeightsDone
    /\ wIn.tokens = <<"grace", "grace", "grace">>
    /\ wIn.references = <<"grace", "mercy">>
    /\ wIn.reference_weight = 4
    /\ DOMAIN wIn.boost_map = {"grace grace", "grace mercy"}
    /\ wOut.value.stats["grace grace"].bigram_count = 2
    /\ wOut.value.stats["grace"].base_count = 3
    /\ wOut.value.stats["grace"].reference_bonus = 4
    /\ "grace mercy" \notin DOMAIN wOut.value.stats

\* the keys the claim gives both outputs
ClaimedKeys ==
    Range(wIn.tokens) \cup Range(wIn.references)
        \cup {k \in DOMAIN wIn.boost_map : PairsAt(wIn.tokens, wIn.boost_map, k) /= {}}
        \cup DOMAIN wIn.manual_adjustments

\* k occurs in the manual adjustments and nowhere else
ManualOnly(k) ==
    /\ k \in DOMAIN wIn.manual_adjustments
    /\ k \notin Range(wIn.tokens) \cup Range(wIn.references)
    /\ PairsAt(wIn.tokens, wIn.boost_map, k) = {}

\* C20: both outputs have exactly the token keys, the reference keys, the
\* matched bigram keys and the keys of the manual adjustments; a key found
\* only in the manual adjustments has base count, reference bonus and
\* bigram count 0; every stat's final_count is the key's weight.
C20_KeySet ==
    WeightsDone =>
        /\ DOMAIN wOut.value.weights = ClaimedKeys
        /\ DOMAIN wOut.value.stats = ClaimedKeys
        /\ Range(wOut.value.order) = ClaimedKeys
        /\ \A k \in ClaimedKeys :
              /\ wOut.value.stats[k].key = k
              /\ wOut.value.stats[k].final_count = wOut.value.weights[k]
              /\ ManualOnly(k)
                    => /\ wOut.value.stats[k].base_count = 0
                       /\ wOut.value.stats[k].reference_bonus = 0
                       /\ wOut.value.stats[k].bigram_count = 0

\* C20 witness: tokens, a reference and a matched bigram give keys, and
\* "Amen" is a key through the manual adjustments alone, with weight 3.
C20_Witness ==
    /\ WeightsDone
    /\ wIn.tokens = <<"grace", "mercy">>
    /\ wIn.references = <<"John 3:16">>
    /\ "grace mercy" \in DOMAIN wOut.value.weights
    /\ ManualOnly("Amen")
    /\ wOut.value.weights["Amen"] = 3
    /\ wOut.value.stats["Amen"].base_count = 0
    /\ Cardinality(DOMAIN wOut.value.stats) = 7

-----------------------------------------------------------------------------
(* C21: the legacy fallback and matched strings that are empty              *)

\* the strings the key-matching pass collects for the call, per C12
PrimaryStrings ==
    ClaimedStrings(tIn.payload, resolved_json_keys(tIn.config),
                   tIn.config.collect_all_json_strings)

\* configured keys match and every matched string is empty
MatchedAllEmpty ==
    /\ ExtractDone
    /\ ~tIn.config.collect_all_json_strings
    /\ resolved_json_keys(tIn.config) /= {}
    /\ PrimaryStrings /= <<>>
    /\ \A i \in 1..Len(PrimaryStrings) : PrimaryStrings[i] = <<>>

\* C21: the fallback is taken only when the key-matching pass collected no
\* string at all: whenever it collected some, the text is made of those
\* strings alone, and when configured keys match only empty strings the
\* text is empty, whatever plaintext the posts at db[0].data.posts carry.
C21_FallbackOnlyOnZeroStrings ==
    /\ ExtractDone /\ PrimaryStrings /= <<>>
          => tOut.value.ok /\ tOut.value.text = FlattenSeqs(PrimaryStrings)
    /\ MatchedAllEmpty => tOut.value.ok /\ tOut.value.text = <<>>

\* C21 witness: "Title" is configured and holds an empty string, the
\* payload's posts carry plaintext, and the extracted text is empty.
C21_Witness ==
    /\ MatchedAllEmpty
    /\ tIn.config.json_text_keys = {"Title"}
    /\ PrimaryStrings = << <<>> >>
    /\ ClaimedLegacyText(tIn.payload) = <<"grace", "mercy", "John", "3:16">>
    /\ tOut.value.ok /\ tOut.value.text = <<>>

-----------------------------------------------------------------------------
(* C22: the lists of a cache entry, under SpecAlias                         *)

\* the addresses of the lists the entries of the cache hold
EntryLists ==
    {owner[k].tokens : k \in DOMAIN owner} \cup {owner[k].references : k \in DOMAIN owner}

\* C22: from the moment an entry is stored until it is evicted, its tokens
\* and references lists hold the elements they were stored with, whatever
\* requests follow and whatever the caller does to the list it got back;
\* no list of an entry is the caller's list or a list of another entry.
C22_EntryListsUnchanged ==
    /\ DOMAIN owner = Range(CacheKeys(TOKEN_CACHE))
    /\ \A i \in 1..Len(TOKEN_CACHE) :
          /\ heap[owner[TOKEN_CACHE[i].key].tokens] = TOKEN_CACHE[i].entry.tokens
          /\ heap[owner[TOKEN_CACHE[i].key].references] = TOKEN_CACHE[i].entry.references
    /\ held \notin EntryLists
    /\ Cardinality(EntryLists) = 2 * Len(TOKEN_CACHE)

\* C22 witness: the entry of the default request, stored with the reference
\* "John 3:16", is the older of two entries, so a later request has stored
\* another; the caller has replaced the elements of the list it got back,
\* and the entry's list is as stored.
C22_Witness ==
    /\ Len(TOKEN_CACHE) = CACHE_CAPACITY
    /\ TOKEN_CACHE[1].entry.by = BasePayload
    /\ TOKEN_CACHE[1].entry.references = <<"John 3:16">>
    /\ heap[owner[TOKEN_CACHE[1].key].references] = <<"John 3:16">>
    /\ held /= 0 /\ heap[held] = <<"amen">>
    /\ TOKEN_CACHE[2].entry.by /= BasePayload

-----------------------------------------------------------------------------
(* C23: requests that do not use the cache, under Spec                      *)

\* the step is a request on a file that resolves, with skipCache set or
\* with the cache disabled
CacheBypassed ==
    /\ last' /= NoRequest
    /\ resolve_input_path(last'.payload.jsonPath) = "ok"
    /\ last'.payload.skipCache \/ ~CACHE_ENABLED

\* the key a request would look up
KeyOf(payload) ==
    build_token_cache_key(payload.jsonPath, ResolvedKind(payload), build_config(payload))

\* C23: a request with skipCache set, or served with the cache disabled,
\* builds no key and looks nothing up, leaves the entries of the cache and
\* their order as they were, and answers by a full run of the pipeline,
\* also when an entry for its key is cached.
C23_SkipCacheLeavesCache ==
    [][CacheBypassed
       => /\ ~last'.use_cache /\ last'.key = NoKey /\ ~last'.hit
          /\ last'.entry = NotPrepared /\ last'.evicted = 0
          /\ TOKEN_CACHE' = TOKEN_CACHE /\ recency' = recency /\ runs' = runs
          /\ \E bypass \in {BypassOf(last'.payload)} :
                IF bypass.ok
                THEN /\ last'.status = "200" /\ last'.extracted
                     /\ last'.result = bypass.result
                ELSE last'.status = "500"]_vars

\* C23 witness: a skipCache request has been answered by a full run while
\* the entry for its key is cached and is the least recently used of two.
C23_Witness ==
    /\ last.status = "200" /\ last.payload.skipCache /\ CACHE_ENABLED
    /\ ~last.use_cache /\ last.extracted /\ last.result.words /= <<>>
    /\ Len(TOKEN_CACHE) = CACHE_CAPACITY
    /\ TOKEN_CACHE[1].key = KeyOf(last.payload)

====
